---- MODULE Spec2Model ----
(***************************************************************************)
(* qbench: the indexing-throughput benchmark harness.                      *)
(*                                                                         *)
(* The model covers the streaming ingest pipeline:                         *)
(*   BatchLineReader.next_batch      (source/mod.rs)                       *)
(*   send_documents_from_uri(s)      (source/http.rs), the producer task   *)
(*   the flume::bounded(1) channel between producer and driver             *)
(*   main, send_with_retry, handle_result (main.rs), the driver            *)
(*   Sink::send of the Quickwit, Elasticsearch and Loki adapters           *)
(* and, each under a specification of its own,                             *)
(*   BatchLineReader called until the end of a stream   (ReaderSpec)       *)
(*   expand_uris                     (source/mod.rs)    (ExpandSpec)       *)
(*   one send_with_retry future                         (SendSpec)         *)
(*   LokiSink's flatten_json and timestamp conversion   (LokiSpec)         *)
(* LiveSpec is the pipeline with fair tasks, for the runs that must end.   *)
(*                                                                         *)
(* Bytes are small naturals.  NL (0) is the newline byte.  The first byte  *)
(* of a line stands for the JSON document the line holds (see DocKind).    *)
(***************************************************************************)
EXTENDS Integers, Sequences, FiniteSets, TLC

VARIABLES
    engine,                     \* args.engine
    retry,                      \* args.retry_indexing_errors
    files,                      \* content of each expanded URI, in expansion order
    faults,                     \* per URI: what goes wrong when it is opened or read
    ppc,                        \* producer task: position in send_documents_from_uris
    uri_idx,                    \* producer: index (1-based) of the URI being streamed
    reader,                     \* producer: the BatchLineReader of the current URI
    total_bytes,                \* producer: send_documents_from_uri local
    bytes,                      \* producer: send_documents_from_uri local (accumulator)
    chunk,                      \* producer: the `batch` returned by next_batch being handled
    chan,                       \* items queued in the flume channel
    rx_alive,                   \* the receiver has not been dropped
    dpc,                        \* driver: position in main
    abort_cause,                \* why main stopped before the report ("none" while running)
    futures,                    \* driver: the FuturesUnordered of send_with_retry futures
    next_id,                    \* driver: number of batches received so far
    num_ingested_bytes,         \* driver counter
    num_ingestion_error_bytes,  \* driver counter
    output_file,                \* content of output_path
    delivered,                  \* history: every item the producer put on the channel
    ledger,                     \* history: one entry per resolved send_with_retry future
    dataset_uri,                \* args.dataset_uri, the template UriSource::new expands
    sink_log,                   \* history: the build_info, commit, index_info calls and the report
    qw_requests,                \* history: the ingest requests QuickwitSink::send issued
    rd,                         \* a BatchLineReader called until it returns None
    ex,                         \* a call of expand_uris
    sd,                         \* one send_with_retry future, polled until it resolves
    lk                          \* a call of one of LokiSink's helper functions

vars == <<engine, retry, files, faults, ppc, uri_idx, reader, total_bytes, bytes,
          chunk, chan, rx_alive, dpc, abort_cause, futures, next_id,
          num_ingested_bytes, num_ingestion_error_bytes, output_file,
          delivered, ledger, dataset_uri, sink_log, qw_requests, rd, ex, sd, lk>>

inputVars == <<engine, retry, files, faults, dataset_uri, rd, ex, sd, lk>>
producerVars == <<ppc, uri_idx, reader, total_bytes, bytes, chunk>>
driverVars == <<dpc, abort_cause, futures, next_id, num_ingested_bytes,
                num_ingestion_error_bytes, output_file, ledger, sink_log, qw_requests>>

----------------------------------------------------------------------------
(* Bounds of the model *)

\* Largest batch budget of the model; the sinks' budgets are scaled to it.
MaxBatchSize == 3

\* At most this many failed send calls and 429 answers per batch.
MaxFail == 2

\* A read error is injected at an offset of at most this many bytes.
MaxFaultOffset == 2

----------------------------------------------------------------------------
(* Bytes, lines and documents *)

NL == 0

\* What goes wrong with a URI: nothing, BatchLineReader::from_uri fails, or
\* the stream fails at the byte offset `at`.
NoFault == [kind |-> "none", at |-> 0]
OpenFault == [kind |-> "open", at |-> 0]
ReadFault(offset) == [kind |-> "read", at |-> offset]

\* source/mod.rs:21, scaled: 5 MB in the program
DEFAULT_MAX_BODY_SIZE == MaxBatchSize

\* sink/loki.rs:112, scaled: 2 MiB in the program, smaller than the default
MAX_CHUNK_SIZE == MaxBatchSize - 1

RECURSIVE Concat(_)
Concat(ss) == IF ss = <<>> THEN <<>> ELSE Head(ss) \o Concat(Tail(ss))

\* Number of bytes read_until(b'\n') appends when the stream is at offset pos:
\* up to and including the next newline, or up to the end of the stream.
RECURSIVE ReadUntilLen(_, _)
ReadUntilLen(data, pos) ==
    IF pos >= Len(data) THEN 0
    ELSE IF data[pos + 1] = NL THEN 1
    ELSE 1 + ReadUntilLen(data, pos + 1)

\* The lines of a byte buffer, each with its newline (the last one possibly
\* without).
RECURSIVE LinesOf(_)
LinesOf(data) ==
    IF data = <<>> THEN <<>>
    ELSE LET n == ReadUntilLen(data, 0)
         IN <<SubSeq(data, 1, n)>> \o LinesOf(SubSeq(data, n + 1, Len(data)))

\* What the JSON document of a line is, read off the line's first byte.
DocKind(line) ==
    IF line = <<>> \/ line[1] = NL THEN "not_json"
    ELSE CASE line[1] = 3 -> "not_json"
           [] line[1] = 4 -> "no_timestamp"
           [] line[1] = 5 -> "bad_timestamp"
           [] line[1] = 6 -> "timestamp_out_of_range"
           [] line[1] = 7 -> "timestamp_not_string"
           [] OTHER -> "valid"

----------------------------------------------------------------------------
(* BatchLineReader (source/mod.rs) *)

\* BatchLineReader::new: the state of a reader that was just opened.  pos is
\* the offset of buf_reader in the stream.
NewReader == [pos |-> 0, buffer |-> <<>>, num_lines |-> 0, has_next |-> TRUE]

\* read_until returns an I/O error when the read that starts at offset pos and
\* would return n bytes reaches the faulty offset (a fault at the end of the
\* stream makes the read that would report end of input fail; once a read
\* has reported end of input the following reads report it again).
ReadFails(fault, pos, n) ==
    /\ fault.kind = "read"
    /\ fault.at >= pos
    /\ fault.at < pos + (IF n = 0 THEN 1 ELSE n)

\* Variant: a line of exactly the budget is skipped too.
LineExceedsAtBudget(line_num_bytes, max_batch_num_bytes) ==
    line_num_bytes >= max_batch_num_bytes

\* next_batch: `if line_num_bytes > self.max_batch_num_bytes`, the line that
\* was just read is skipped.
LineExceeds(line_num_bytes, max_batch_num_bytes) ==
    line_num_bytes > max_batch_num_bytes

\* Variant: the buffer may grow one byte past the budget.
BufferExceedsLate(buffer_len, max_batch_num_bytes) ==
    buffer_len > max_batch_num_bytes + 1

\* next_batch: `if self.buffer.len() > self.max_batch_num_bytes`, the buffer
\* without its last line is returned.
BufferExceeds(buffer_len, max_batch_num_bytes) ==
    buffer_len > max_batch_num_bytes

\* Variant: the buffer is cut one byte before the last line.
NewLenShort(buffer_len, line_num_bytes) ==
    buffer_len - line_num_bytes - 1

\* next_batch: `let new_len = self.buffer.len() - line_num_bytes`, where the
\* buffer is cut: right before the line that was just read.
NewLen(buffer_len, line_num_bytes) ==
    buffer_len - line_num_bytes

\* next_batch: the warn! of a skipped line, "Skipping line {}" with
\* self.num_lines + 1, and where in the stream the skipped line starts.
Warning(r) == [line |-> r.num_lines + 1, at |-> r.pos]

\* BatchLineReader::next_batch: the loop up to its return.  The result is
\* "Err" (io error), "None" or "Some" with the batch; warned holds the
\* warnings the call logged, in order.
RECURSIVE next_batch(_, _, _, _)
next_batch(data, fault, max_batch_num_bytes, r) ==
    LET line_num_bytes == ReadUntilLen(data, r.pos)
        buf == r.buffer \o SubSeq(data, r.pos + 1, r.pos + line_num_bytes)
        new_len == NewLen(Len(buf), line_num_bytes)
        r1 == [r EXCEPT !.pos = @ + line_num_bytes, !.buffer = buf]
    IN IF ReadFails(fault, r.pos, line_num_bytes)
       THEN [res |-> "Err", batch |-> <<>>, reader |-> r, warned |-> <<>>]
       ELSE IF LineExceeds(line_num_bytes, max_batch_num_bytes)
       THEN LET nb == next_batch(data, fault, max_batch_num_bytes,
                                 [r1 EXCEPT !.buffer = SubSeq(buf, 1, new_len)])
            IN [nb EXCEPT !.warned = <<Warning(r)>> \o @]
       ELSE IF BufferExceeds(Len(buf), max_batch_num_bytes)
       THEN [res |-> "Some",
             batch |-> SubSeq(buf, 1, new_len),
             reader |-> [r1 EXCEPT !.buffer = SubSeq(buf, new_len + 1, Len(buf))],
             warned |-> <<>>]
       ELSE IF line_num_bytes = 0
       THEN IF buf = <<>>
            THEN [res |-> "None", batch |-> <<>>,
                  reader |-> [r1 EXCEPT !.has_next = FALSE], warned |-> <<>>]
            ELSE [res |-> "Some", batch |-> buf,
                  reader |-> [r1 EXCEPT !.has_next = FALSE, !.buffer = <<>>],
                  warned |-> <<>>]
       ELSE next_batch(data, fault, max_batch_num_bytes,
                       [r1 EXCEPT !.num_lines = @ + 1])

----------------------------------------------------------------------------
(* expand_uris (source/mod.rs).  A string is a sequence of one-character    *)
(* strings.                                                                *)

\* The decimal digits, by value.
DigitChars == <<"0", "1", "2", "3", "4", "5", "6", "7", "8", "9">>

\* \d of URI_EXPAND_PATTERN.
IsDigit(c) == \E d \in 1..Len(DigitChars) : DigitChars[d] = c

\* `.` of URI_EXPAND_PATTERN: any character but a line feed.
IsAnyChar(c) == c # "\n"

DigitValue(c) == (CHOOSE d \in 1..Len(DigitChars) : DigitChars[d] = c) - 1

\* Number of digits the string s holds from position p on.
RECURSIVE DigitRun(_, _)
DigitRun(s, p) ==
    IF p > Len(s) \/ ~IsDigit(s[p]) THEN 0 ELSE 1 + DigitRun(s, p + 1)

\* URI_EXPAND_PATTERN matched at position p with the first \d+ taking n1
\* digits: `{`, n1 digits, two characters, the digits that follow (the second
\* \d+ is greedy and `}` is no digit, so it takes them all), `}`.  The result
\* is the position of the closing brace, 0 when there is no such match.
MatchWith(s, p, n1) ==
    LET x == p + n1 + 1
        n2 == DigitRun(s, x + 2)
        close == x + 2 + n2
    IN IF /\ close <= Len(s)
          /\ s[p] = "{"
          /\ n1 >= 1 /\ n1 <= DigitRun(s, p + 1)
          /\ IsAnyChar(s[x]) /\ IsAnyChar(s[x + 1])
          /\ n2 >= 1
          /\ s[close] = "}"
       THEN close
       ELSE 0

\* URI_EXPAND_PATTERN matched at position p: the first \d+ is greedy, so the
\* match is the one with the longest first run of digits that matches at all.
MatchAt(s, p) ==
    LET lens == {n1 \in 1..Len(s) : MatchWith(s, p, n1) # 0}
    IN IF lens = {} THEN 0
       ELSE MatchWith(s, p, CHOOSE n1 \in lens : \A m \in lens : m <= n1)

\* URI_EXPAND_PATTERN.captures_iter(&uri): the leftmost matches from position p
\* on, none overlapping the one before.
RECURSIVE Captures(_, _)
Captures(s, p) ==
    IF p > Len(s) THEN <<>>
    ELSE LET close == MatchAt(s, p)
         IN IF close = 0 THEN Captures(s, p + 1)
            ELSE <<SubSeq(s, p, close)>> \o Captures(s, close + 1)

\* str::trim_matches(c): every leading and every trailing c is removed.
RECURSIVE trim_matches(_, _)
trim_matches(s, c) ==
    IF s = <<>> THEN s
    ELSE IF Head(s) = c THEN trim_matches(Tail(s), c)
    ELSE IF s[Len(s)] = c THEN trim_matches(SubSeq(s, 1, Len(s) - 1), c)
    ELSE s

\* str::split_once(".."): the parts around the first "..", found FALSE when
\* there is none (None).
split_once(s) ==
    LET at == {i \in 1..(Len(s) - 1) : s[i] = "." /\ s[i + 1] = "."}
        first == CHOOSE i \in at : \A j \in at : i <= j
    IN IF at = {} THEN [found |-> FALSE, start |-> <<>>, end |-> <<>>]
       ELSE [found |-> TRUE,
             start |-> SubSeq(s, 1, first - 1),
             end |-> SubSeq(s, first + 2, Len(s))]

\* str::parse::<usize> succeeds: decimal digits, at least one.
IsUsize(s) == s # <<>> /\ \A i \in 1..Len(s) : IsDigit(s[i])

\* str::parse::<usize>, the value.
RECURSIVE parse(_)
parse(s) ==
    IF s = <<>> THEN 0
    ELSE parse(SubSeq(s, 1, Len(s) - 1)) * Len(DigitChars) + DigitValue(s[Len(s)])

\* Variant: no range is zero-padded.
zero_pad_by_none(start) == 0

\* expand_uris: `if pad_start { start.len() } else { 0 }`.
zero_pad_by(start) == IF start # <<>> /\ Head(start) = "0" THEN Len(start) ELSE 0

\* expand_uris, the body of the loop over the captures: the RangeExpand of
\* one capture; ok is FALSE when one of the unwraps panics.
RangeExpand(replace_str) ==
    LET range_str == trim_matches(trim_matches(replace_str, "{"), "}")
        parts == split_once(range_str)
    IN IF ~parts.found \/ ~IsUsize(parts.start) \/ ~IsUsize(parts.end)
       THEN [ok |-> FALSE, replace_str |-> replace_str,
             start |-> 0, end |-> 0, zero_pad_by |-> 0]
       ELSE [ok |-> TRUE, replace_str |-> replace_str,
             start |-> parse(parts.start), end |-> parse(parts.end),
             zero_pad_by |-> zero_pad_by(parts.start)]

\* i.to_string()
RECURSIVE to_string(_)
to_string(i) ==
    IF i < Len(DigitChars) THEN <<DigitChars[i + 1]>>
    ELSE to_string(i \div Len(DigitChars)) \o <<DigitChars[(i % Len(DigitChars)) + 1]>>

\* format!("{i:0>pad_by$}"): zeros on the left up to the width pad_by.
RECURSIVE pad_left(_, _)
pad_left(s, pad_by) == IF Len(s) >= pad_by THEN s ELSE pad_left(<<"0">> \o s, pad_by)

format_value(i, pad_by) == pad_left(to_string(i), pad_by)

\* str::replacen(pat, to, 1): the first occurrence of pat is replaced.
replacen(s, pat, to) ==
    LET at == {i \in 1..(Len(s) - Len(pat) + 1) : SubSeq(s, i, i + Len(pat) - 1) = pat}
        first == CHOOSE i \in at : \A j \in at : i <= j
    IN IF at = {} THEN s
       ELSE SubSeq(s, 1, first - 1) \o to \o SubSeq(s, first + Len(pat), Len(s))

\* `range.range.clone()`, start..end: the values from start up to end - 1,
\* none when start >= end.
RangeValues(range) ==
    [k \in 1..(IF range.end > range.start THEN range.end - range.start ELSE 0)
        |-> range.start + k - 1]

\* expand_uris, one turn of `for range in ranges`: every URI of the queue is
\* popped from the front and its variants are pushed at the back.
ExpandRange(uris, range) ==
    Concat([u \in 1..Len(uris) |->
              [k \in 1..Len(RangeValues(range)) |->
                  replacen(uris[u], range.replace_str,
                           format_value(RangeValues(range)[k], range.zero_pad_by))]])

RECURSIVE ExpandRanges(_, _)
ExpandRanges(uris, ranges) ==
    IF ranges = <<>> THEN uris
    ELSE ExpandRanges(ExpandRange(uris, Head(ranges)), Tail(ranges))

\* expand_uris: the queue of URIs, or a panic of one of its unwraps.
expand_uris(uri) ==
    LET caps == Captures(uri, 1)
        ranges == [k \in 1..Len(caps) |-> RangeExpand(caps[k])]
    IN IF \E k \in 1..Len(ranges) : ~ranges[k].ok
       THEN [res |-> "Panic", uris |-> <<>>]
       ELSE [res |-> "Ok", uris |-> ExpandRanges(<<uri>>, ranges)]

----------------------------------------------------------------------------
(* Sinks (sink/mod.rs, sink/quickwit.rs, sink/elasticsearch.rs, sink/loki.rs) *)


Engines == {"quickwit", "elasticsearch", "loki"}

\* The engines main's match has no sink for: `bail!("Engine not supported")`.
UnsupportedEngines == {"parseable", "signoz", "zincobserve"}

\* Sink::batch_size, with LokiSink's override.
batch_size(e) == IF e = "loki" THEN MAX_CHUNK_SIZE ELSE DEFAULT_MAX_BODY_SIZE

\* What the engine answers to one HTTP request.  status 0 is a transport
\* error (no response); errors is the `errors` field of the response body.
Responses ==
    {[status |-> 0, errors |-> "absent"],
     [status |-> 200, errors |-> "absent"],
     [status |-> 200, errors |-> "false"],
     [status |-> 200, errors |-> "true"],
     [status |-> 200, errors |-> "not_bool"],
     [status |-> 204, errors |-> "absent"],
     [status |-> 429, errors |-> "absent"],
     [status |-> 500, errors |-> "absent"]}

\* Variant: every ingest request forces a commit.
QuickwitRequestForced(batch) ==
    [query |-> "commit=force", body |-> batch.bytes]

\* QuickwitSink::send: the POST it issues for a batch, the same at every turn
\* of its while loop: the query of ingest_url and the body.
QuickwitRequest(batch) ==
    [query |-> IF batch.last THEN "commit=force" ELSE "", body |-> batch.bytes]

\* Variant: every 2xx status counts as sent.
QuickwitSendAny2xx(batch, resp) ==
    IF resp.status = 0 THEN "Err"
    ELSE IF resp.status = 429 THEN "Again"
    ELSE IF resp.status \notin 200..299 THEN "Err"
    ELSE "Ok"

\* Variant: a 429 ends send with an error, like the other statuses.
QuickwitSendGivesUp(batch, resp) ==
    IF resp.status = 200 THEN "Ok" ELSE "Err"

\* QuickwitSink::send, one turn of its while loop: "Again" is the sleep after
\* a 429 that is followed by the next request of the same send call.
QuickwitSend(batch, resp) ==
    IF resp.status = 0 THEN "Err"
    ELSE IF resp.status = 429 THEN "Again"
    ELSE IF resp.status # 200 THEN "Err"
    ELSE "Ok"

\* Variant: the body of a 200 answer is not looked at.
ElasticsearchSendStatusOnly(batch, resp) ==
    IF resp.status = 200 THEN "Ok" ELSE "Err"

\* ElasticsearchSink::send.
ElasticsearchSend(batch, resp) ==
    IF resp.status = 0 THEN "Err"
    ELSE IF resp.status # 200 THEN "Err"
    ELSE IF resp.errors = "absent" THEN "Ok"
    ELSE IF resp.errors = "not_bool" THEN "Panic"
    ELSE IF resp.errors = "true" THEN "Err"
    ELSE "Ok"

\* LokiSink::send, the loop over the lines of the batch: the first line that
\* stops the loop decides, "Push" when every line was converted.
RECURSIVE LokiLines(_)
LokiLines(lines) ==
    IF lines = <<>> THEN "Push"
    ELSE LET kind == DocKind(Head(lines))
         IN IF kind = "not_json" THEN "Err"
            ELSE IF kind = "no_timestamp" THEN "Panic"
            ELSE IF kind = "bad_timestamp" THEN "Err"
            ELSE IF kind = "timestamp_out_of_range" THEN "Panic"
            ELSE IF kind = "timestamp_not_string" THEN "Panic"
            ELSE LokiLines(Tail(lines))

\* LokiSink::send_chunk: the status of the push response.
LokiSendChunk(resp) ==
    IF resp.status = 0 THEN "Err"
    ELSE IF resp.status \in {204, 200} THEN "Ok"
    ELSE "Err"

\* LokiSink::send.
LokiSend(batch, resp) ==
    LET conv == LokiLines(LinesOf(batch.bytes))
    IN IF conv = "Push" THEN LokiSendChunk(resp) ELSE conv

\* sink.send through the Box<dyn Sink>.
SinkSend(e, batch, resp) ==
    CASE e = "quickwit" -> QuickwitSend(batch, resp)
      [] e = "elasticsearch" -> ElasticsearchSend(batch, resp)
      [] e = "loki" -> LokiSend(batch, resp)

----------------------------------------------------------------------------
(* Inputs of a run *)

\* Contents of the URIs the runs stream.
Files ==
    {<<>>,                        \* an empty file
     <<1, NL>>,                   \* one line, smaller than every budget
     <<1, NL, 2, NL>>,            \* two lines
     <<1, NL, 2, 2, NL, 1, NL>>,  \* three lines, the second MaxBatchSize long
     <<1, NL, 2>>,                \* the last line has no newline
     <<3, NL, 1, NL>>,            \* first line is not JSON
     <<4, NL, 1, NL>>,            \* first line has no `timestamp` string
     <<5, NL, 1, NL>>}            \* first line's timestamp is not RFC 3339

\* Files that follow another one in a two-URI expansion.
SecondFiles == {<<>>, <<1, NL>>, <<2, NL, 1, NL, 2, NL>>}

\* The expansions: no URI (an empty range), one URI, two URIs.
Datasets ==
    {<<>>} \cup {<<f>> : f \in Files}
           \cup {<<f, g>> : f \in Files \ {<<5, NL, 1, NL>>}, g \in SecondFiles}

\* Fault assignments of a dataset: no fault, or one URI that cannot be opened
\* or whose stream fails at some offset.
FaultsOf(ds) ==
    {[i \in 1..Len(ds) |-> NoFault]} \cup
    {[i \in 1..Len(ds) |-> IF i = k THEN v ELSE NoFault] :
        k \in 1..Len(ds), v \in {OpenFault} \cup {ReadFault(o) : o \in 0..MaxFaultOffset}}

\* The dataset templates of the runs: no range, a range of two values, and
\* two ranges with start >= end.
RunTemplates ==
    {<<"a", "/">>,
     <<"{", "0", ".", ".", "2", "}">>,
     <<"{", "2", ".", ".", "2", "}">>,
     <<"{", "3", ".", ".", "1", "}">>}

\* The contents a template can stream: one per URI of its expansion.
DatasetsOf(uri) == {ds \in Datasets : Len(ds) = Len(expand_uris(uri).uris)}

\* The reader and the expansion that are exercised on their own, at rest.
RdIdle ==
    [pc |-> "off", data |-> <<>>, max_batch_num_bytes |-> 1, reader |-> NewReader,
     batches |-> <<>>, warnings |-> <<>>, after |-> "none"]

ExIdle == [pc |-> "off", pieces |-> <<>>, uri |-> <<>>, out |-> [res |-> "none", uris |-> <<>>]]

SdIdle ==
    [pc |-> "off", engine |-> "quickwit", retry |-> FALSE,
     batch |-> [bytes |-> <<>>, last |-> FALSE],
     calls |-> 0, fails |-> 0, throttled |-> 0, in_send |-> FALSE,
     requests |-> <<>>, returns |-> <<>>, result |-> [tag |-> "none", bytes |-> 0],
     num_ingested_bytes |-> 0, num_ingestion_error_bytes |-> 0]

LkIdle == [pc |-> "off"]

----------------------------------------------------------------------------
(* Initial state: the arguments are parsed, source and sink are constructed, *)
(* or main has bailed because the engine has no sink                        *)

Init ==
    /\ engine \in Engines \cup UnsupportedEngines
    /\ retry \in BOOLEAN
    /\ dataset_uri \in RunTemplates
    /\ files \in DatasetsOf(dataset_uri)
    /\ faults \in FaultsOf(files)
    /\ ppc = "idle"
    /\ uri_idx = 0
    /\ reader = NewReader
    /\ total_bytes = 0
    /\ bytes = <<>>
    /\ chunk = <<>>
    /\ chan = <<>>
    /\ rx_alive = (engine \in Engines)
    /\ dpc = (IF engine \in Engines THEN "placeholder" ELSE "aborted")
    /\ abort_cause = (IF engine \in Engines THEN "none" ELSE "engine")
    /\ futures = {}
    /\ next_id = 0
    /\ num_ingested_bytes = 0
    /\ num_ingestion_error_bytes = 0
    /\ output_file = "absent"
    /\ delivered = <<>>
    /\ ledger = <<>>
    /\ sink_log = <<>>
    /\ qw_requests = {}
    /\ rd = RdIdle
    /\ ex = ExIdle
    /\ sd = SdIdle
    /\ lk = LkIdle

----------------------------------------------------------------------------
(* The producer task (source/http.rs) *)

\* Variant: the channel queues two items.
ChannelCapacityTwo == 1 + 1

\* Variant: the channel never takes an item.
ChannelCapacityZero == 1 - 1

\* Capacity of the channel: flume::bounded(1).
ChannelCapacity == 1

\* send_documents_from_uris: the for loop goes to the URI after i, or ends
\* and the task returns (dropping the last sender closes the channel).
AfterUri(i) == IF i < Len(files) THEN "open" ELSE "done"

\* send_documents_from_uris: `last` of the URI at index i.
IsLastUri(i) == i = Len(files)

\* Variant: the accumulated buffer is emitted before every chunk.
MustEmitEveryChunk(total, batch_len, size) == TRUE

\* send_documents_from_uri: the condition under which the accumulated buffer
\* is emitted before the new chunk is added.
MustEmit(total, batch_len, size) == total + batch_len > size

\* Variant: the flag of every batch of the final URI.
LastFlagOfUri(last_uri, has_next) == last_uri

\* send_documents_from_uri: the `last` flag of an emitted DocumentBatch.
LastFlag(last_uri, has_next) == last_uri /\ ~has_next

\* BatchLineReader::from_uri at the head of send_documents_from_uri.
ProducerOpen ==
    /\ ppc = "open"
    /\ IF faults[uri_idx] = OpenFault
       THEN /\ ppc' = "send_err"
            /\ UNCHANGED <<reader, total_bytes, bytes>>
       ELSE /\ ppc' = "next"
            /\ reader' = NewReader
            /\ total_bytes' = 0
            /\ bytes' = <<>>
    /\ UNCHANGED <<uri_idx, chunk, chan, rx_alive, delivered>>
    /\ UNCHANGED <<inputVars, driverVars>>

\* One turn of the while loop of send_documents_from_uri up to the channel
\* send: next_batch, then either the chunk is accumulated or the accumulated
\* buffer has to be emitted first.
ProducerNextBatch ==
    /\ ppc = "next"
    /\ LET nb == next_batch(files[uri_idx], faults[uri_idx], batch_size(engine), reader)
       IN /\ reader' = nb.reader
          /\ CASE nb.res = "Err" ->
                    /\ ppc' = "send_err"
                    /\ UNCHANGED <<uri_idx, total_bytes, bytes, chunk>>
               [] nb.res = "None" ->
                    /\ ppc' = AfterUri(uri_idx)
                    /\ uri_idx' = uri_idx + 1
                    /\ UNCHANGED <<total_bytes, bytes, chunk>>
               [] nb.res = "Some" ->
                    IF MustEmit(total_bytes, Len(nb.batch), batch_size(engine))
                    THEN /\ ppc' = "send"
                         /\ chunk' = nb.batch
                         /\ UNCHANGED <<uri_idx, total_bytes, bytes>>
                    ELSE /\ total_bytes' = total_bytes + Len(nb.batch)
                         /\ bytes' = bytes \o nb.batch
                         /\ UNCHANGED <<ppc, uri_idx, chunk>>
    /\ UNCHANGED <<chan, rx_alive, delivered>>
    /\ UNCHANGED <<inputVars, driverVars>>

\* Variant: the chunk just read is sent ahead of the accumulated buffer.
ProducerSendNewest ==
    /\ ppc = "send"
    /\ rx_alive
    /\ Len(chan) < ChannelCapacity
    /\ LET item == [kind |-> "batch",
                    uri |-> uri_idx,
                    bytes |-> chunk,
                    last |-> LastFlag(IsLastUri(uri_idx), reader.has_next)]
       IN /\ chan' = Append(chan, item)
          /\ delivered' = Append(delivered, item)
    /\ chunk' = <<>>
    /\ ppc' = "next"
    /\ UNCHANGED <<uri_idx, reader, total_bytes, bytes, rx_alive>>
    /\ UNCHANGED <<inputVars, driverVars>>

\* batch_tx.send(Ok(DocumentBatch {..})) completes, then the rest of the loop
\* body: the chunk becomes the new accumulated buffer.
ProducerSend ==
    /\ ppc = "send"
    /\ rx_alive
    /\ Len(chan) < ChannelCapacity
    /\ LET item == [kind |-> "batch",
                    uri |-> uri_idx,
                    bytes |-> bytes,
                    last |-> LastFlag(IsLastUri(uri_idx), reader.has_next)]
       IN /\ chan' = Append(chan, item)
          /\ delivered' = Append(delivered, item)
    /\ total_bytes' = Len(chunk)
    /\ bytes' = chunk
    /\ chunk' = <<>>
    /\ ppc' = "next"
    /\ UNCHANGED <<uri_idx, reader, rx_alive>>
    /\ UNCHANGED <<inputVars, driverVars>>

\* Variant: after the error is forwarded the task returns.
ProducerSendErrReturns ==
    /\ ppc = "send_err"
    /\ rx_alive
    /\ Len(chan) < ChannelCapacity
    /\ LET item == [kind |-> "error", uri |-> uri_idx, bytes |-> <<>>, last |-> FALSE]
       IN /\ chan' = Append(chan, item)
          /\ delivered' = Append(delivered, item)
    /\ ppc' = "done"
    /\ uri_idx' = Len(files) + 1
    /\ UNCHANGED <<reader, total_bytes, bytes, chunk, rx_alive>>
    /\ UNCHANGED <<inputVars, driverVars>>

\* send_documents_from_uris: batch_tx.send(Err(error)) completes and the loop
\* goes on with the next URI.
ProducerSendErr ==
    /\ ppc = "send_err"
    /\ rx_alive
    /\ Len(chan) < ChannelCapacity
    /\ LET item == [kind |-> "error", uri |-> uri_idx, bytes |-> <<>>, last |-> FALSE]
       IN /\ chan' = Append(chan, item)
          /\ delivered' = Append(delivered, item)
    /\ ppc' = AfterUri(uri_idx)
    /\ uri_idx' = uri_idx + 1
    /\ UNCHANGED <<reader, total_bytes, bytes, chunk, rx_alive>>
    /\ UNCHANGED <<inputVars, driverVars>>

\* A send on the channel after the receiver was dropped fails: the `?` ends
\* send_documents_from_uri, the send of that error fails too and the task
\* returns.
ProducerDisconnected ==
    /\ ppc \in {"send", "send_err"}
    /\ ~rx_alive
    /\ ppc' = "disconnected"
    /\ UNCHANGED <<uri_idx, reader, total_bytes, bytes, chunk, chan, rx_alive, delivered>>
    /\ UNCHANGED <<inputVars, driverVars>>

----------------------------------------------------------------------------
(* The driver (main.rs) *)

\* Variant: the window is awaited one push later.
WindowFullAtThree(n) == n >= 3

\* main: `if futures.len() >= 2` after a push, "Allow 2 futures to run in
\* parallel".
WindowFull(n) == n >= 2

\* Variant: a failed send resolves Err whatever the retry flag.
send_with_retry_once(send_result, retry_flag, batch_num_bytes) ==
    IF send_result = "Ok"
    THEN [tag |-> "Ok", bytes |-> batch_num_bytes]
    ELSE [tag |-> "Err", bytes |-> batch_num_bytes]

\* Variant: a failed send is retried whatever the retry flag.
send_with_retry_always(send_result, retry_flag, batch_num_bytes) ==
    IF send_result = "Ok"
    THEN [tag |-> "Ok", bytes |-> batch_num_bytes]
    ELSE [tag |-> "Retry", bytes |-> batch_num_bytes]

\* send_with_retry: what the future does with the result of one sink.send
\* call: resolve Ok(bytes), resolve Err(bytes), or sleep and call send again.
send_with_retry(send_result, retry_flag, batch_num_bytes) ==
    IF send_result = "Ok"
    THEN [tag |-> "Ok", bytes |-> batch_num_bytes]
    ELSE IF ~retry_flag
    THEN [tag |-> "Err", bytes |-> batch_num_bytes]
    ELSE [tag |-> "Retry", bytes |-> batch_num_bytes]

\* Variant: the bytes of a failed batch are not accounted.
handle_result_ok_only(result, ingested, errors) ==
    IF result.tag = "Ok"
    THEN [ingested |-> ingested + result.bytes, errors |-> errors]
    ELSE [ingested |-> ingested, errors |-> errors]

\* handle_result: the two counters after a resolved future is accounted.
handle_result(result, ingested, errors) ==
    IF result.tag = "Ok"
    THEN [ingested |-> ingested + result.bytes, errors |-> errors]
    ELSE [ingested |-> ingested, errors |-> errors + result.bytes]

\* The keys of the report main writes with json!, with the values the model
\* tracks (the others are engine data and timings).
Report(ingested) ==
    [engine |-> engine,
     index |-> "index",
     num_ingested_bytes |-> ingested,
     num_indexed_docs |-> "index_info",
     num_indexed_bytes |-> "index_info",
     num_splits |-> "index_info",
     indexing_duration_secs |-> "elapsed",
     doc_per_second |-> "elapsed",
     megabytes_per_second |-> "elapsed",
     build_info |-> "build_info",
     input_shard_info |-> "shard_infos"]

\* main returns an error or panics: the receiver and the futures are dropped.
Abort(cause) ==
    /\ dpc' = "aborted"
    /\ abort_cause' = cause
    /\ rx_alive' = FALSE
    /\ futures' = {}

\* Variant: no placeholder is written before build_info.
DriverPlaceholderSkipped ==
    /\ dpc = "placeholder"
    /\ dpc' = "build_info"
    /\ UNCHANGED <<abort_cause, futures, next_id, num_ingested_bytes,
                   num_ingestion_error_bytes, output_file, ledger, sink_log, qw_requests>>
    /\ UNCHANGED <<inputVars, producerVars, chan, rx_alive, delivered>>

\* std::fs::write(output_path, "{}")
DriverPlaceholder ==
    /\ dpc = "placeholder"
    /\ output_file' = "{}"
    /\ dpc' = "build_info"
    /\ UNCHANGED <<abort_cause, futures, next_id, num_ingested_bytes,
                   num_ingestion_error_bytes, ledger, sink_log, qw_requests>>
    /\ UNCHANGED <<inputVars, producerVars, chan, rx_alive, delivered>>

\* sink.build_info().await?
DriverBuildInfo(ok) ==
    /\ dpc = "build_info"
    /\ sink_log' = Append(sink_log, [op |-> "build_info", ok |-> ok])
    /\ IF ok
       THEN /\ dpc' = "batch_stream"
            /\ UNCHANGED <<abort_cause, rx_alive, futures>>
       ELSE Abort("build_info")
    /\ UNCHANGED <<next_id, num_ingested_bytes, num_ingestion_error_bytes,
                   output_file, ledger, qw_requests>>
    /\ UNCHANGED <<inputVars, producerVars, chan, delivered>>

\* source.batch_stream(sink.batch_size()): the channel is created and the
\* producer task is spawned.
DriverBatchStream ==
    /\ dpc = "batch_stream"
    /\ dpc' = "recv"
    /\ ppc' = AfterUri(0)
    /\ uri_idx' = 1
    /\ UNCHANGED <<reader, total_bytes, bytes, chunk>>
    /\ UNCHANGED <<abort_cause, futures, next_id, num_ingested_bytes,
                   num_ingestion_error_bytes, output_file, ledger, sink_log, qw_requests>>
    /\ UNCHANGED <<inputVars, chan, rx_alive, delivered>>

\* The for loop over the receiver takes the next item: an error ends main,
\* a batch is wrapped in a send_with_retry future and pushed.
DriverRecv ==
    /\ dpc = "recv"
    /\ chan # <<>>
    /\ chan' = Tail(chan)
    /\ LET item == Head(chan)
       IN IF item.kind = "error"
          THEN /\ Abort("source_error")
               /\ UNCHANGED next_id
          ELSE /\ futures' = futures \cup
                     {[id |-> next_id + 1,
                       batch |-> [bytes |-> item.bytes, last |-> item.last],
                       calls |-> 0, fails |-> 0, throttled |-> 0,
                       in_send |-> FALSE]}
               /\ next_id' = next_id + 1
               /\ dpc' = IF WindowFull(Cardinality(futures) + 1) THEN "await" ELSE "recv"
               /\ UNCHANGED <<abort_cause, rx_alive>>
    /\ UNCHANGED <<num_ingested_bytes, num_ingestion_error_bytes, output_file, ledger,
                   sink_log, qw_requests>>
    /\ UNCHANGED <<inputVars, producerVars, delivered>>

\* The for loop ends: the channel is empty and every sender is dropped.
DriverChannelClosed ==
    /\ dpc = "recv"
    /\ chan = <<>>
    /\ ppc = "done"
    /\ dpc' = "drain"
    /\ UNCHANGED <<abort_cause, futures, next_id, num_ingested_bytes,
                   num_ingestion_error_bytes, output_file, ledger, sink_log, qw_requests>>
    /\ UNCHANGED <<inputVars, producerVars, chan, rx_alive, delivered>>

\* Variant: a future may be polled for the first time ahead of older ones.
NextToStartAny(f) == f.calls = 0

\* futures.next().await polls the futures that were never polled in the order
\* they were pushed (FuturesUnordered queues a pushed future behind the ones
\* pushed before it): f is the oldest future not yet polled.
NextToStart(f) ==
    /\ f.calls = 0
    /\ \A g \in futures : g.id < f.id => g.calls > 0

\* Whether a turn of sink.send posts a request: LokiSink::send posts only
\* after every line of the batch was converted.
PostsRequest(e, batch) ==
    e = "loki" => LokiLines(LinesOf(batch.bytes)) = "Push"

\* futures.next().await polls the future f for the first time: send_with_retry
\* runs up to its first sink.send, whose request is now under way.
DriverStart(f) ==
    /\ dpc \in {"await", "drain"}
    /\ f \in futures
    /\ NextToStart(f)
    /\ PostsRequest(engine, f.batch)
    /\ futures' = (futures \ {f}) \cup {[f EXCEPT !.calls = 1, !.in_send = TRUE]}
    /\ qw_requests' =
          IF engine = "quickwit"
          THEN qw_requests \cup {[id |-> f.id, n |-> 1] @@ QuickwitRequest(f.batch)}
          ELSE qw_requests
    /\ UNCHANGED <<dpc, abort_cause, next_id, num_ingested_bytes,
                   num_ingestion_error_bytes, output_file, ledger, sink_log>>
    /\ UNCHANGED <<inputVars, producerVars, chan, rx_alive, delivered>>

\* futures.next().await polls the future f: one turn of sink.send with the
\* engine's answer resp to the request under way, or, at the first poll of
\* a future whose send ends before any request, that send.  A resolved future
\* is yielded at once and accounted by handle_result.
DriverPoll(f, resp) ==
    /\ dpc \in {"await", "drain"}
    /\ f \in futures
    /\ f.calls > 0 \/ (NextToStart(f) /\ ~PostsRequest(engine, f.batch))
    /\ LET send_result == SinkSend(engine, f.batch, resp)
           calls == IF f.in_send THEN f.calls ELSE f.calls + 1
           batch_num_bytes == Len(f.batch.bytes)
           result == send_with_retry(send_result, retry, batch_num_bytes)
           counters == handle_result(result, num_ingested_bytes, num_ingestion_error_bytes)
       IN /\ (send_result \in {"Err", "Again"}) => f.fails + f.throttled < MaxFail
          /\ CASE send_result = "Panic" ->
                    /\ Abort("send_panic")
                    /\ UNCHANGED <<num_ingested_bytes, num_ingestion_error_bytes, ledger>>
               [] send_result = "Again" ->
                    /\ futures' = (futures \ {f}) \cup
                          {[f EXCEPT !.calls = calls, !.throttled = @ + 1, !.in_send = TRUE]}
                    /\ UNCHANGED <<dpc, abort_cause, rx_alive, num_ingested_bytes,
                                   num_ingestion_error_bytes, ledger>>
               [] send_result \in {"Ok", "Err"} /\ result.tag = "Retry" ->
                    /\ futures' = (futures \ {f}) \cup
                          {[f EXCEPT !.calls = calls, !.fails = @ + 1, !.in_send = FALSE]}
                    /\ UNCHANGED <<dpc, abort_cause, rx_alive, num_ingested_bytes,
                                   num_ingestion_error_bytes, ledger>>
               [] send_result \in {"Ok", "Err"} /\ result.tag # "Retry" ->
                    /\ futures' = futures \ {f}
                    /\ num_ingested_bytes' = counters.ingested
                    /\ num_ingestion_error_bytes' = counters.errors
                    /\ ledger' = Append(ledger,
                          [id |-> f.id, batch |-> f.batch, calls |-> calls,
                           fails |-> f.fails + (IF send_result = "Err" THEN 1 ELSE 0),
                           result |-> result,
                           to_ingested |-> counters.ingested - num_ingested_bytes,
                           to_errors |-> counters.errors - num_ingestion_error_bytes])
                    /\ dpc' = IF dpc = "await" THEN "recv" ELSE "drain"
                    /\ UNCHANGED <<abort_cause, rx_alive>>
    /\ qw_requests' =
          IF engine = "quickwit"
          THEN qw_requests \cup {[id |-> f.id, n |-> f.fails + f.throttled + 1]
                                   @@ QuickwitRequest(f.batch)}
          ELSE qw_requests
    /\ UNCHANGED <<next_id, output_file, sink_log>>
    /\ UNCHANGED <<inputVars, producerVars, chan, delivered>>

\* Variant: the loop over the unresolved futures is left while one is in flight.
DriverDrainedEarly ==
    /\ dpc = "drain"
    /\ dpc' = "commit"
    /\ UNCHANGED <<abort_cause, futures, next_id, num_ingested_bytes,
                   num_ingestion_error_bytes, output_file, ledger, sink_log, qw_requests>>
    /\ UNCHANGED <<inputVars, producerVars, chan, rx_alive, delivered>>

\* `while let Some(result) = futures.next().await` ends: nothing in flight.
DriverDrained ==
    /\ dpc = "drain"
    /\ futures = {}
    /\ dpc' = "commit"
    /\ UNCHANGED <<abort_cause, futures, next_id, num_ingested_bytes,
                   num_ingestion_error_bytes, output_file, ledger, sink_log, qw_requests>>
    /\ UNCHANGED <<inputVars, producerVars, chan, rx_alive, delivered>>

\* sink.commit().await?
DriverCommit(ok) ==
    /\ dpc = "commit"
    /\ sink_log' = Append(sink_log, [op |-> "commit", ok |-> ok])
    /\ IF ok
       THEN /\ dpc' = "index_info"
            /\ UNCHANGED <<abort_cause, rx_alive, futures>>
       ELSE Abort("commit")
    /\ UNCHANGED <<next_id, num_ingested_bytes, num_ingestion_error_bytes,
                   output_file, ledger, qw_requests>>
    /\ UNCHANGED <<inputVars, producerVars, chan, delivered>>

\* sink.index_info().await?
DriverIndexInfo(ok) ==
    /\ dpc = "index_info"
    /\ sink_log' = Append(sink_log, [op |-> "index_info", ok |-> ok])
    /\ IF ok
       THEN /\ dpc' = "report"
            /\ UNCHANGED <<abort_cause, rx_alive, futures>>
       ELSE Abort("index_info")
    /\ UNCHANGED <<next_id, num_ingested_bytes, num_ingestion_error_bytes,
                   output_file, ledger, qw_requests>>
    /\ UNCHANGED <<inputVars, producerVars, chan, delivered>>

\* std::fs::write(output_path, serde_json::to_string_pretty(&results)?) and
\* main returns Ok(()).
DriverReport ==
    /\ dpc = "report"
    /\ output_file' = Report(num_ingested_bytes)
    /\ sink_log' = Append(sink_log, [op |-> "report", ok |-> TRUE])
    /\ dpc' = "done"
    /\ rx_alive' = FALSE
    /\ UNCHANGED <<abort_cause, futures, next_id, num_ingested_bytes,
                   num_ingestion_error_bytes, ledger, qw_requests>>
    /\ UNCHANGED <<inputVars, producerVars, chan, delivered>>

----------------------------------------------------------------------------

Next ==
    \/ ProducerOpen
    \/ ProducerNextBatch
    \/ ProducerSend
    \/ ProducerSendErr
    \/ ProducerDisconnected
    \/ DriverPlaceholder
    \/ \E ok \in BOOLEAN : DriverBuildInfo(ok)
    \/ DriverBatchStream
    \/ DriverRecv
    \/ DriverChannelClosed
    \/ \E f \in futures : DriverStart(f)
    \/ \E f \in futures, resp \in Responses : DriverPoll(f, resp)
    \/ DriverDrained
    \/ \E ok \in BOOLEAN : DriverCommit(ok)
    \/ \E ok \in BOOLEAN : DriverIndexInfo(ok)
    \/ DriverReport

Spec == Init /\ [][Next]_vars

----------------------------------------------------------------------------
(* Runs that are bound to end: every URI is read without error, retry is off, *)
(* and the tasks keep running                                               *)

\* The arguments and inputs of such a run: an engine with a sink, no
\* --retry-indexing-errors, no faulty URI.
LiveInit ==
    /\ Init
    /\ engine \in Engines
    /\ ~retry
    /\ \A i \in 1..Len(faults) : faults[i] = NoFault

\* The producer task: tokio runs a spawned task whenever it can go on.
ProducerStep ==
    \/ ProducerOpen
    \/ ProducerNextBatch
    \/ ProducerSend
    \/ ProducerDisconnected

\* main: the runtime polls it whenever it can go on; every request is answered
\* in the end, and (MaxFail) not for ever with 429.
DriverStep ==
    \/ DriverPlaceholder
    \/ \E ok \in BOOLEAN : DriverBuildInfo(ok)
    \/ DriverBatchStream
    \/ DriverRecv
    \/ DriverChannelClosed
    \/ \E f \in futures : DriverStart(f)
    \/ \E f \in futures, resp \in Responses : DriverPoll(f, resp)
    \/ DriverDrained
    \/ \E ok \in BOOLEAN : DriverCommit(ok)
    \/ \E ok \in BOOLEAN : DriverIndexInfo(ok)
    \/ DriverReport

LiveNext ==
    \/ ProducerStep
    \/ DriverStep

LiveSpec == LiveInit /\ [][LiveNext]_vars /\ WF_vars(ProducerStep) /\ WF_vars(DriverStep)

----------------------------------------------------------------------------
(* BatchLineReader and expand_uris on their own *)

\* Longest stream the reader is given.
MaxStreamLen == 5

\* Most pieces a template is made of.
MaxPieces == 3

mainVars == <<engine, retry, files, faults, dataset_uri, producerVars, chan, rx_alive,
              driverVars, delivered>>

\* No run of main: its variables rest.
MainOff ==
    /\ engine = "quickwit"
    /\ retry = FALSE
    /\ files = <<>>
    /\ faults = <<>>
    /\ dataset_uri = <<>>
    /\ ppc = "idle"
    /\ uri_idx = 0
    /\ reader = NewReader
    /\ total_bytes = 0
    /\ bytes = <<>>
    /\ chunk = <<>>
    /\ chan = <<>>
    /\ rx_alive = FALSE
    /\ dpc = "off"
    /\ abort_cause = "none"
    /\ futures = {}
    /\ next_id = 0
    /\ num_ingested_bytes = 0
    /\ num_ingestion_error_bytes = 0
    /\ output_file = "absent"
    /\ delivered = <<>>
    /\ ledger = <<>>
    /\ sink_log = <<>>
    /\ qw_requests = {}

\* The streams a reader is opened on: every byte string up to MaxStreamLen.
Streams == UNION {[1..n -> {NL, 1, 2}] : n \in 0..MaxStreamLen}

\* BatchLineReader::new(reader, max_batch_num_bytes) on a stream that is read
\* without error.
ReaderInit ==
    /\ MainOff
    /\ ex = ExIdle
    /\ sd = SdIdle
    /\ lk = LkIdle
    /\ \E data \in Streams, max_batch_num_bytes \in 1..MaxBatchSize :
          rd = [pc |-> "calling", data |-> data,
                max_batch_num_bytes |-> max_batch_num_bytes,
                reader |-> NewReader, batches |-> <<>>, warnings |-> <<>>,
                after |-> "none"]

\* `while let Some(batch) = batch_reader.next_batch().await?`: one call.
ReaderNextBatch ==
    /\ rd.pc = "calling"
    /\ LET nb == next_batch(rd.data, NoFault, rd.max_batch_num_bytes, rd.reader)
       IN rd' = IF nb.res = "Some"
                THEN [rd EXCEPT !.reader = nb.reader, !.batches = Append(@, nb.batch),
                                !.warnings = @ \o nb.warned]
                ELSE [rd EXCEPT !.reader = nb.reader, !.warnings = @ \o nb.warned,
                                !.pc = "eof"]
    /\ UNCHANGED <<mainVars, ex, sd, lk>>

\* One more call of next_batch after it returned None.
ReaderNextBatchAfterEof ==
    /\ rd.pc = "eof"
    /\ LET nb == next_batch(rd.data, NoFault, rd.max_batch_num_bytes, rd.reader)
       IN rd' = [rd EXCEPT !.reader = nb.reader, !.warnings = @ \o nb.warned,
                           !.after = nb.res, !.pc = "done"]
    /\ UNCHANGED <<mainVars, ex, sd, lk>>

ReaderNext ==
    \/ ReaderNextBatch
    \/ ReaderNextBatchAfterEof

ReaderSpec == ReaderInit /\ [][ReaderNext]_vars

\* The pieces the templates are made of: plain text, ranges (zero-padded or
\* not, empty or not), braces around other text, a range inside braces.
Pieces ==
    {<<"a", "/">>,
     <<"{", "0", ".", ".", "2", "}">>,
     <<"{", "0", "8", ".", ".", "1", "1", "}">>,
     <<"{", "8", ".", ".", "1", "1", "}">>,
     <<"{", "2", ".", ".", "2", "}">>,
     <<"{", "3", ".", ".", "1", "}">>,
     <<"{", "1", "2", "3", "4", "}">>,
     <<"{", "1", "a", "b", "2", "}">>,
     <<"{", "{", "5", ".", ".", "6", "}", ".", ".", "7", "}">>,
     <<"{", "5", ".", ".", "7", "}">>}

\* The templates: up to MaxPieces pieces in a row.
Templates == UNION {[1..n -> Pieces] : n \in 0..MaxPieces}

ExpandInit ==
    /\ MainOff
    /\ rd = RdIdle
    /\ sd = SdIdle
    /\ lk = LkIdle
    /\ \E pieces \in Templates :
          ex = [pc |-> "call", pieces |-> pieces, uri |-> Concat(pieces),
                out |-> [res |-> "none", uris |-> <<>>]]

\* UriSource::new: expand_uris(uri.to_string()).
ExpandCall ==
    /\ ex.pc = "call"
    /\ ex' = [ex EXCEPT !.out = expand_uris(ex.uri), !.pc = "done"]
    /\ UNCHANGED <<mainVars, rd, sd, lk>>

ExpandNext == ExpandCall

ExpandSpec == ExpandInit /\ [][ExpandNext]_vars

----------------------------------------------------------------------------
(* One send_with_retry future on its own (main.rs, sink/*.rs) *)

\* The batches the future is created for: lines of every document kind.
SendBatches ==
    {[bytes |-> b, last |-> l] :
        b \in {<<1, NL>>, <<1, NL, 2, NL>>, <<3, NL>>, <<4, NL>>, <<5, NL>>,
               <<6, NL>>, <<7, NL>>, <<1, NL, 4, NL>>, <<3, NL, 4, NL>>,
               <<1, NL, 5, NL>>, <<1, NL, 6, NL>>, <<5, NL, 7, NL>>},
        l \in BOOLEAN}

\* main: `futures.push(send_with_retry(&sink, doc_batch, retry))`, with the
\* two counters at zero.
SendInit ==
    /\ MainOff
    /\ rd = RdIdle
    /\ ex = ExIdle
    /\ lk = LkIdle
    /\ \E e \in Engines, r \in BOOLEAN, b \in SendBatches :
          sd = [SdIdle EXCEPT !.pc = "poll", !.engine = e, !.retry = r, !.batch = b]

\* The request of a turn of sink.send with the response it got.  For
\* Elasticsearch and Loki the body stands for the payload built from the batch.
SentRequest(e, batch, resp) ==
    (IF e = "quickwit" THEN QuickwitRequest(batch)
                       ELSE [query |-> "", body |-> batch.bytes])
    @@ [resp |-> resp]

\* The future is polled: one turn of sink.send with the engine's answer resp,
\* then send_with_retry's match on what send returned and, once the future
\* resolved, handle_result.
SendPoll(resp) ==
    /\ sd.pc = "poll"
    /\ LET send_result == SinkSend(sd.engine, sd.batch, resp)
           calls == IF sd.in_send THEN sd.calls ELSE sd.calls + 1
           result == send_with_retry(send_result, sd.retry, Len(sd.batch.bytes))
           counters == handle_result(result, sd.num_ingested_bytes,
                                     sd.num_ingestion_error_bytes)
           requests == IF PostsRequest(sd.engine, sd.batch)
                       THEN Append(sd.requests, SentRequest(sd.engine, sd.batch, resp))
                       ELSE sd.requests
       IN /\ (send_result \in {"Err", "Again"}) => sd.fails + sd.throttled < MaxFail
          /\ sd' =
                CASE send_result = "Panic" ->
                       [sd EXCEPT !.pc = "panicked", !.calls = calls,
                                  !.requests = requests]
                  [] send_result = "Again" ->
                       [sd EXCEPT !.calls = calls, !.throttled = @ + 1,
                                  !.in_send = TRUE, !.requests = requests]
                  [] send_result \in {"Ok", "Err"} /\ result.tag = "Retry" ->
                       [sd EXCEPT !.calls = calls, !.fails = @ + 1, !.in_send = FALSE,
                                  !.requests = requests,
                                  !.returns = Append(@, send_result)]
                  [] send_result \in {"Ok", "Err"} /\ result.tag # "Retry" ->
                       [sd EXCEPT !.pc = "resolved", !.calls = calls, !.in_send = FALSE,
                                  !.requests = requests,
                                  !.returns = Append(@, send_result),
                                  !.result = result,
                                  !.num_ingested_bytes = counters.ingested,
                                  !.num_ingestion_error_bytes = counters.errors]
    /\ UNCHANGED <<mainVars, rd, ex, lk>>

SendNext == \E resp \in Responses : SendPoll(resp)

SendSpec == SendInit /\ [][SendNext]_vars

----------------------------------------------------------------------------
(* LokiSink's helper functions on their own (sink/loki.rs) *)

\* Most elements an array of a document has.
MaxItems == 2

\* serde_json::Value.  s is the text of a number, the content of a string,
\* the literal of null; kids are the entries of an object or the elements of
\* an array (with an empty key), in iteration order.
JNum(text) == [t |-> "num", s |-> text, kids |-> <<>>]
JStr(content) == [t |-> "str", s |-> content, kids |-> <<>>]
JNull == [t |-> "null", s |-> <<"n", "u", "l", "l">>, kids |-> <<>>]
JArr(items) ==
    [t |-> "arr", s |-> <<>>,
     kids |-> [i \in 1..Len(items) |-> [k |-> <<>>, v |-> items[i]]]]
JObj(entries) == [t |-> "obj", s |-> <<>>, kids |-> entries]

\* Value::to_string of a scalar: its JSON text, a string in quotes.
JsonText(value) ==
    IF value.t = "str" THEN <<"\"">> \o value.s \o <<"\"">> ELSE value.s

\* flatten_json, the `_` arm: the string a scalar is stored as.
value_str(value) ==
    CASE value.t = "num" -> JsonText(value)
      [] value.t = "str" -> value.s
      [] OTHER -> JsonText(value)

\* String::truncate(new_len)
truncate(str, new_len) == IF new_len >= Len(str) THEN str ELSE SubSeq(str, 1, new_len)

\* FnvHashMap::insert: the entry of key is set, an older one is replaced.
insert(map, key, value) ==
    [x \in DOMAIN map \cup {key} |-> IF x = key THEN value ELSE map[x]]

\* Variant: every element of an array gets its index, the first one too.
index_str_always(i) == <<"[">> \o to_string(i) \o <<"]">>

\* flatten_json, the Array arm: what is pushed on the prefix for element i.
index_str(i) == IF i # 0 THEN <<"[">> \o to_string(i) \o <<"]">> ELSE <<>>

\* flatten_json(value, &mut prefix, &mut flattened): the prefix and the map
\* when it returns.  FlattenObject and FlattenArray are the two for loops,
\* from the kids that are left.
RECURSIVE flatten_json(_, _, _), FlattenObject(_, _, _, _), FlattenArray(_, _, _, _, _)
flatten_json(value, prefix, flattened) ==
    CASE value.t = "obj" -> FlattenObject(value.kids, Len(prefix), prefix, flattened)
      [] value.t = "arr" -> FlattenArray(value.kids, 0, Len(prefix), prefix, flattened)
      [] OTHER -> [prefix |-> prefix,
                   flattened |-> insert(flattened, prefix, value_str(value))]

FlattenObject(kids, previous_len, prefix, flattened) ==
    IF kids = <<>> THEN [prefix |-> prefix, flattened |-> flattened]
    ELSE LET dotted == IF prefix # <<>> THEN Append(prefix, ".") ELSE prefix
             inner == flatten_json(Head(kids).v, dotted \o Head(kids).k, flattened)
         IN FlattenObject(Tail(kids), previous_len,
                          truncate(inner.prefix, previous_len), inner.flattened)

FlattenArray(kids, i, previous_len, prefix, flattened) ==
    IF kids = <<>> THEN [prefix |-> prefix, flattened |-> flattened]
    ELSE LET inner == flatten_json(Head(kids).v, prefix \o index_str(i), flattened)
         IN FlattenArray(Tail(kids), i + 1, previous_len,
                         truncate(inner.prefix, previous_len), inner.flattened)

\* The documents: scalars, arrays and objects of scalars, arrays and objects
\* of those, the document of test_flatten_json, an object with a dotted key,
\* an object with an empty key, and null.
Scalars == {JNum(<<"1">>), JStr(<<"2">>)}

Keys == {<<"a">>, <<"b">>}

Containers(S) ==
    {JArr(items) : items \in UNION {[1..n -> S] : n \in 0..MaxItems}}
    \cup {JObj(<<>>)}
    \cup {JObj(<<[k |-> k1, v |-> v1]>>) : k1 \in Keys, v1 \in S}
    \cup UNION {{JObj(<<[k |-> k1, v |-> v1], [k |-> k2, v |-> v2]>>) :
                     k2 \in Keys \ {k1}, v1 \in S, v2 \in S} : k1 \in Keys}

TestDoc ==
    JObj(<<[k |-> <<"a">>, v |-> JNum(<<"1">>)],
           [k |-> <<"b">>,
            v |-> JObj(<<[k |-> <<"c">>, v |-> JStr(<<"2">>)],
                         [k |-> <<"d">>,
                          v |-> JArr(<<JStr(<<"3">>), JNum(<<"4">>)>>)]>>)]>>)

Docs ==
    Scalars \cup Containers(Scalars)
    \cup Containers(Scalars \cup Containers(Scalars))
    \cup {TestDoc, JNull,
          JObj(<<[k |-> <<"a">>, v |-> JObj(<<[k |-> <<"b">>, v |-> JNum(<<"1">>)]>>)],
                 [k |-> <<"a", ".", "b">>, v |-> JStr(<<"2">>)]>>),
          JObj(<<[k |-> <<>>, v |-> JObj(<<[k |-> <<"b">>, v |-> JNum(<<"1">>)]>>)]>>)}

\* The prefix and the map flatten_json is called with: send_chunk passes a
\* cleared buffer and a new map.
Prefixes == {<<>>, <<"p">>}

\* The fields of a timestamp text: date, time of day, nanoseconds of the
\* fraction, UTC offset in minutes.
Ts(year, month, day, hour, minute, second, nano, offset) ==
    [year |-> year, month |-> month, day |-> day, hour |-> hour,
     minute |-> minute, second |-> second, nano |-> nano, offset |-> offset]

IsLeapYear(y) == (y % 4 = 0 /\ y % 100 # 0) \/ y % 400 = 0

DaysInMonth(y, m) ==
    CASE m \in {4, 6, 9, 11} -> 30
      [] m = 2 -> IF IsLeapYear(y) THEN 29 ELSE 28
      [] OTHER -> 31

\* chrono::DateTime::parse_from_rfc3339: the text is accepted when its
\* fields are a date of the calendar, a time of day and an offset (no leap
\* second is among the timestamps of the model).
parse_from_rfc3339(ts) ==
    /\ ts.month \in 1..12
    /\ ts.day \in 1..DaysInMonth(ts.year, ts.month)
    /\ ts.hour \in 0..23
    /\ ts.minute \in 0..59
    /\ ts.second \in 0..59
    /\ ts.nano \in 0..(10^9 - 1)
    /\ ts.offset \in -1439..1439

\* Days from 1970-01-01 to the date y-m-d of the proleptic Gregorian
\* calendar, by eras of 400 years that start on a 1st of March.
days_from_civil(y, m, d) ==
    LET yy == IF m <= 2 THEN y - 1 ELSE y
        era == yy \div 400
        yoe == yy - era * 400
        doy == (153 * ((m + 9) % 12) + 2) \div 5 + d - 1
        doe == yoe * 365 + yoe \div 4 - yoe \div 100 + doy
    IN era * 146097 + doe - 719468

\* The instant of a DateTime<FixedOffset>: the offset is taken off the local
\* time.  A 64-bit count is kept as days, second of the day and nanosecond.
Instant(ts) ==
    LET local == ts.hour * 3600 + ts.minute * 60 + ts.second - ts.offset * 60
    IN [days |-> days_from_civil(ts.year, ts.month, ts.day) + local \div 86400,
        sod |-> local % 86400,
        nano |-> ts.nano]

\* i64::MAX and i64::MIN nanoseconds as instants: 2262-04-11T23:47:16.854775807
\* and 1677-09-21T00:12:43.145224192.
I64Max == [days |-> 106751, sod |-> 85636, nano |-> 854775807]
I64Min == [days |-> -106752, sod |-> 763, nano |-> 145224192]

\* a is not after b.
NotAfter(a, b) ==
    \/ a.days < b.days
    \/ a.days = b.days /\ a.sod < b.sod
    \/ a.days = b.days /\ a.sod = b.sod /\ a.nano <= b.nano

\* DateTime::timestamp_nanos_opt: Some exactly when the nanoseconds since the
\* epoch fit an i64.
timestamp_nanos_opt(t) == NotAfter(I64Min, t) /\ NotAfter(t, I64Max)

\* i64::to_string of the nanoseconds since the epoch of instant t: the
\* seconds (days * 86400 + sod, written in two parts) followed by the nine
\* digits of the nanosecond; before the epoch a minus sign and the distance.
I64ToString(t) ==
    LET hi == t.days * 864 + t.sod \div 100
        lo == t.sod % 100
        secs == IF hi = 0 THEN to_string(lo)
                ELSE to_string(hi) \o pad_left(to_string(lo), 2)
        back == -(t.days * 86400 + t.sod)
    IN IF t.days >= 0
       THEN (IF hi = 0 /\ lo = 0 THEN to_string(t.nano)
             ELSE secs \o pad_left(to_string(t.nano), 9))
       ELSE IF t.nano = 0 THEN <<"-">> \o to_string(back) \o pad_left(<<>>, 9)
       ELSE IF back = 1 THEN <<"-">> \o to_string(10^9 - t.nano)
       ELSE <<"-">> \o to_string(back - 1) \o pad_left(to_string(10^9 - t.nano), 9)

\* parse_timestamp_to_nanoseconds
parse_timestamp_to_nanoseconds(ts) ==
    IF ~parse_from_rfc3339(ts) THEN [res |-> "Err", s |-> <<>>]
    ELSE IF ~timestamp_nanos_opt(Instant(ts)) THEN [res |-> "Panic", s |-> <<>>]
    ELSE [res |-> "Ok", s |-> I64ToString(Instant(ts))]

\* The timestamps: that of test_parse_timestamp_to_nanoseconds, the same
\* instant at +01:00, the epoch and instants near it, a leap day at -02:00, a
\* date after 2038, the last instant an i64 holds and the one after it, a
\* later century, an early one, and two texts that are not dates.
Timestamps ==
    {Ts(2020, 1, 1, 12, 0, 0, 0, 0),
     Ts(2020, 1, 1, 13, 0, 0, 0, 60),
     Ts(1970, 1, 1, 0, 0, 0, 0, 0),
     Ts(1970, 1, 1, 0, 0, 1, 5, 0),
     Ts(1970, 1, 1, 0, 0, 0, 7, 0),
     Ts(1969, 12, 31, 23, 59, 59, 500000000, 0),
     Ts(1969, 12, 31, 23, 59, 58, 0, 0),
     Ts(2020, 2, 29, 23, 59, 59, 999999999, -120),
     Ts(2100, 3, 1, 0, 0, 0, 1, 0),
     Ts(2262, 4, 11, 23, 47, 16, 854775807, 0),
     Ts(2262, 4, 11, 23, 47, 16, 854775808, 0),
     Ts(2300, 1, 1, 0, 0, 0, 0, 0),
     Ts(1600, 1, 1, 0, 0, 0, 0, 0),
     Ts(2021, 2, 29, 0, 0, 0, 0, 0),
     Ts(2020, 13, 1, 0, 0, 0, 0, 0)}

LkFresh ==
    [pc |-> "off", doc |-> JNull, prefix |-> <<>>,
     out |-> [prefix |-> <<>>, flattened |-> <<>>],
     ts |-> Ts(1970, 1, 1, 0, 0, 0, 0, 0), nanos |-> [res |-> "none", s |-> <<>>]]

\* A call of flatten_json on a document, or of
\* parse_timestamp_to_nanoseconds on a timestamp.
LokiInit ==
    /\ MainOff
    /\ rd = RdIdle
    /\ ex = ExIdle
    /\ sd = SdIdle
    /\ \/ \E doc \in Docs, prefix \in Prefixes :
             lk = [LkFresh EXCEPT !.pc = "flatten", !.doc = doc, !.prefix = prefix]
       \/ \E ts \in Timestamps :
             lk = [LkFresh EXCEPT !.pc = "timestamp", !.ts = ts]

\* flatten_json(json, &mut buffer, &mut structured_metadata)
LokiFlatten ==
    /\ lk.pc = "flatten"
    /\ lk' = [lk EXCEPT !.out = flatten_json(lk.doc, lk.prefix, <<>>),
                        !.pc = "flattened"]
    /\ UNCHANGED <<mainVars, rd, ex, sd>>

\* parse_timestamp_to_nanoseconds(timestamp_str)
LokiTimestamp ==
    /\ lk.pc = "timestamp"
    /\ lk' = [lk EXCEPT !.nanos = parse_timestamp_to_nanoseconds(lk.ts),
                        !.pc = "converted"]
    /\ UNCHANGED <<mainVars, rd, ex, sd>>

LokiNext ==
    \/ LokiFlatten
    \/ LokiTimestamp

LokiSpec == LokiInit /\ [][LokiNext]_vars

----------------------------------------------------------------------------
(* Observations on a run *)

\* The batches among the delivered items, in delivery order.
DeliveredBatches == SelectSeq(delivered, LAMBDA it : it.kind = "batch")

\* The bytes of the delivered batches, concatenated in delivery order.
DeliveredBytes == Concat([i \in 1..Len(DeliveredBatches) |-> DeliveredBatches[i].bytes])

\* The batches the driver took from the channel, in order.
ReceivedBatches == SubSeq(DeliveredBatches, 1, next_id)

\* No URI of the run is faulty.
NoFaults == \A i \in 1..Len(faults) : faults[i] = NoFault

\* Every line of every URI ends with a newline and fits the batch budget.
LinesFit ==
    \A i \in 1..Len(files) :
        \A j \in 1..Len(LinesOf(files[i])) :
            LET line == LinesOf(files[i])[j]
            IN line[Len(line)] = NL /\ Len(line) <= batch_size(engine)

\* The indices of the delivered items flagged last.
LastItems == {i \in 1..Len(delivered) : delivered[i].last}

RECURSIVE LedgerSum(_)
LedgerSum(l) == IF l = <<>> THEN 0 ELSE Len(Head(l).batch.bytes) + LedgerSum(Tail(l))

\* main got to sink.commit().
ReachedCommit ==
    \/ dpc \in {"commit", "index_info", "report", "done"}
    \/ abort_cause \in {"commit", "index_info"}

----------------------------------------------------------------------------
(* Claims *)

\* C1: when the producer has streamed URIs that are read without error and
\* whose lines are newline-terminated and fit the budget, the bytes of the
\* delivered batches, concatenated in delivery order, are the contents of the
\* URIs concatenated in expansion order.
C1_DeliveredEqualsInput ==
    (ppc = "done" /\ NoFaults /\ LinesFit) => DeliveredBytes = Concat(files)

\* C2: when the source has completed without error over an input that holds
\* at least one byte, exactly one delivered batch is flagged last.
C2_ExactlyOneLast ==
    (ppc = "done" /\ NoFaults /\ Concat(files) # <<>>) => Cardinality(LastItems) = 1

\* C3: a delivered batch flagged last is the final item on the channel, comes
\* from the final URI, and was emitted after the reader of that URI reported
\* end of input (having consumed the whole stream).
C3_LastIsFinalItem ==
    \A i \in LastItems :
        /\ i = Len(delivered)
        /\ delivered[i].kind = "batch"
        /\ delivered[i].uri = Len(files)
        /\ ~reader.has_next
        /\ reader.pos = Len(files[Len(files)])

C3_Witness ==
    /\ ppc = "done"
    /\ LastItems # {}
    /\ Len(delivered) >= 2

\* C4: at every moment the two counters sum to the bytes of the batches whose
\* send resolved, every resolved batch went whole to exactly one counter, once;
\* and once main reached sink.commit() every received batch is resolved, so
\* the counters sum to the bytes of all received batches.
C4_Accounting ==
    /\ num_ingested_bytes + num_ingestion_error_bytes = LedgerSum(ledger)
    /\ \A i \in 1..Len(ledger) :
          LET e == ledger[i]
              len == Len(ReceivedBatches[e.id].bytes)
          IN /\ e.batch.bytes = ReceivedBatches[e.id].bytes
             /\ \/ e.to_ingested = len /\ e.to_errors = 0
                \/ e.to_ingested = 0 /\ e.to_errors = len
             /\ \A j \in 1..Len(ledger) : ledger[j].id = e.id => j = i
    /\ ReachedCommit =>
          /\ {ledger[i].id : i \in 1..Len(ledger)} = 1..next_id
          /\ next_id = Len(DeliveredBatches)
          /\ num_ingested_bytes + num_ingestion_error_bytes = Len(DeliveredBytes)

C4_Witness ==
    /\ dpc = "commit"
    /\ num_ingested_bytes > 0
    /\ num_ingestion_error_bytes > 0

\* C5: at most 2 send_with_retry futures are in flight (pushed, and so also
\* started, and not yet resolved).
C5_InFlightAtMostTwo ==
    /\ Cardinality(futures) <= 2
    /\ Cardinality({f \in futures : f.calls > 0}) <= 2

C5_Witness == Cardinality({f \in futures : f.calls > 0}) = 2

\* C6: with retry enabled, a resolved batch whose send failed K times resolved
\* Ok(batch length) after exactly K + 1 send calls, its length went once to
\* num_ingested_bytes and nothing of it to num_ingestion_error_bytes.
C6_RetryUntilOk ==
    retry =>
        /\ \A i \in 1..Len(ledger) :
              LET e == ledger[i]
              IN /\ e.result = [tag |-> "Ok", bytes |-> Len(e.batch.bytes)]
                 /\ e.calls = e.fails + 1
                 /\ e.batch = [bytes |-> ReceivedBatches[e.id].bytes,
                               last |-> ReceivedBatches[e.id].last]
                 /\ e.to_ingested = Len(e.batch.bytes)
                 /\ e.to_errors = 0
                 /\ \A j \in 1..Len(ledger) : ledger[j].id = e.id => j = i
        /\ num_ingestion_error_bytes = 0
        /\ num_ingested_bytes = LedgerSum(ledger)

C6_Witness ==
    /\ retry
    /\ \E i \in 1..Len(ledger) : ledger[i].fails = MaxFail /\ ledger[i].result.tag = "Ok"

\* C7: with retry disabled, sink.send is called exactly once per batch: the
\* future resolves Ok(len) when the call succeeded and Err(len) when it
\* failed, and no future ever makes a second call.
C7_NoRetrySendsOnce ==
    ~retry =>
        /\ \A f \in futures : f.calls <= 1 /\ f.fails = 0
        /\ \A i \in 1..Len(ledger) :
              LET e == ledger[i]
              IN /\ e.calls = 1
                 /\ e.fails \in {0, 1}
                 /\ e.result = [tag |-> IF e.fails = 0 THEN "Ok" ELSE "Err",
                                bytes |-> Len(ReceivedBatches[e.id].bytes)]

C7_Witness ==
    /\ ~retry
    /\ \E i, j \in 1..Len(ledger) :
          ledger[i].result.tag = "Err" /\ ledger[j].result.tag = "Ok"

\* C8: with retry disabled, a failing send never ends the run: main is never
\* stopped by a send (here: of the Loki sink).
C8_SendFailureNeverAborts ==
    (~retry /\ engine = "loki") => abort_cause # "send_panic"

\* C9: when retry is disabled and the send of some batch failed, the report
\* written to the output file holds num_ingestion_error_bytes, greater than 0.
C9_ReportHasErrorBytes ==
    (/\ dpc = "done"
     /\ ~retry
     /\ \E i \in 1..Len(ledger) : ledger[i].result.tag = "Err")
    => /\ "num_ingestion_error_bytes" \in DOMAIN output_file
       /\ output_file["num_ingestion_error_bytes"] > 0

\* C10: a source-side error that reaches the driver after at least one batch
\* was received does not stop the run.
C10_SourceErrorAfterBatchContinues ==
    next_id >= 1 => abort_cause # "source_error"

\* sink.commit() was called.
CommitCalled == \E i \in 1..Len(sink_log) : sink_log[i].op = "commit"

\* What the calls logged so far were preceded by.
CommitOrder ==
    /\ CommitCalled =>
          /\ ppc = "done"
          /\ chan = <<>>
          /\ futures = {}
          /\ next_id = Len(DeliveredBatches)
          /\ {ledger[i].id : i \in 1..Len(ledger)} = 1..next_id
          /\ num_ingested_bytes + num_ingestion_error_bytes = LedgerSum(ledger)
    /\ \A i \in 1..Len(sink_log) :
          /\ sink_log[i].op = "index_info" =>
                i > 1 /\ sink_log[i - 1] = [op |-> "commit", ok |-> TRUE]
          /\ sink_log[i].op = "report" =>
                i > 1 /\ sink_log[i - 1] = [op |-> "index_info", ok |-> TRUE]

\* C11: sink.commit() is called only once the channel is closed and every
\* future the driver started has resolved and is accounted; index_info() is
\* called only right after a successful commit(), the report is written only
\* right after a successful index_info(); and from the call of commit() on no
\* send is started: no future changes, none resolves, no request is issued.
C11_CommitAfterDrain ==
    /\ []CommitOrder
    /\ [][CommitCalled =>
             /\ futures' = futures
             /\ ledger' = ledger
             /\ qw_requests' = qw_requests]_vars

C11_Witness ==
    /\ dpc = "done"
    /\ next_id >= 2
    /\ Len(sink_log) = 4

\* s is a prefix of t.
IsPrefix(s, t) == Len(s) <= Len(t) /\ s = SubSeq(t, 1, Len(s))

\* The lines of data that fit the budget max, in order.
KeptLines(data, max) == SelectSeq(LinesOf(data), LAMBDA line : Len(line) <= max)

\* The bytes of the batches of URI u among the delivered items, in delivery
\* order.
DeliveredOf(u) ==
    Concat([i \in 1..Len(DeliveredBatches) |->
               IF DeliveredBatches[i].uri = u THEN DeliveredBatches[i].bytes ELSE <<>>])

\* C12: the delivered items are ordered by URI; the batches of one URI, in
\* delivery order, make up a prefix of that URI's lines that fit the budget, in
\* file order; and the channel hands them to the driver in that order: it
\* holds the last delivered items, and the n-th future holds the n-th batch.
C12_DeliveryOrder ==
    /\ \A i, j \in 1..Len(delivered) : i < j => delivered[i].uri <= delivered[j].uri
    /\ \A u \in 1..Len(files) :
          IsPrefix(DeliveredOf(u), Concat(KeptLines(files[u], batch_size(engine))))
    /\ LET taken == Len(delivered) - Len(chan)
       IN /\ chan = SubSeq(delivered, taken + 1, Len(delivered))
          /\ next_id = Len(SelectSeq(SubSeq(delivered, 1, taken),
                                     LAMBDA it : it.kind = "batch"))
    /\ \A f \in futures :
          f.batch = [bytes |-> DeliveredBatches[f.id].bytes,
                     last |-> DeliveredBatches[f.id].last]
    /\ \A i \in 1..Len(ledger) :
          ledger[i].batch = [bytes |-> DeliveredBatches[ledger[i].id].bytes,
                             last |-> DeliveredBatches[ledger[i].id].last]

C12_Witness ==
    /\ next_id >= 3
    /\ DeliveredBatches[1].uri = 1 /\ DeliveredBatches[2].uri = 1
    /\ DeliveredBatches[3].uri = 2
    /\ DeliveredBatches[1].bytes # DeliveredBatches[2].bytes

\* The lines of the batches the reader returned so far, in order.
ReturnedLines == Concat([i \in 1..Len(rd.batches) |-> LinesOf(rd.batches[i])])

\* C13: the lines of the batches next_batch returned, taken batch after batch,
\* are whole lines of the input, in source order: each batch starts at the
\* first byte of a line and ends right after a newline or at the end of the
\* input, so no line is split over two batches or cut.
C13_WholeLines ==
    IsPrefix(ReturnedLines, KeptLines(rd.data, rd.max_batch_num_bytes))

C13_Witness ==
    /\ rd.pc = "done"
    /\ Len(rd.batches) >= 2
    /\ Len(LinesOf(rd.batches[1])) >= 2
    /\ rd.data[Len(rd.data)] # NL

\* C14: every batch next_batch returned is non-empty and at most
\* max_batch_num_bytes long.
C14_BatchWithinBudget ==
    \A i \in 1..Len(rd.batches) :
        Len(rd.batches[i]) >= 1 /\ Len(rd.batches[i]) <= rd.max_batch_num_bytes

C14_Witness ==
    /\ rd.pc = "done"
    /\ \E i \in 1..Len(rd.batches) :
          /\ Len(rd.batches[i]) = rd.max_batch_num_bytes
          /\ Len(LinesOf(rd.batches[i])) = 1
    /\ \E j \in 1..Len(LinesOf(rd.data)) :
          Len(LinesOf(rd.data)[j]) > rd.max_batch_num_bytes

\* C15: once next_batch returned None, the batches it returned, concatenated,
\* are the input without the lines longer than max_batch_num_bytes, has_next is
\* false, and one more call returns None again.
C15_AllKeptLinesOnce ==
    /\ rd.pc \in {"eof", "done"} =>
          /\ Concat(rd.batches) = Concat(KeptLines(rd.data, rd.max_batch_num_bytes))
          /\ ~rd.reader.has_next
    /\ rd.pc = "done" => rd.after = "None"

C15_Witness ==
    /\ rd.pc = "done"
    /\ Len(rd.batches) >= 2
    /\ Len(Concat(rd.batches)) < Len(rd.data)
    /\ \E j \in 1..Len(LinesOf(rd.data)) :
          Len(LinesOf(rd.data)[j]) = rd.max_batch_num_bytes

\* The literal pattern {<digits>..<digits>} at position p of s: the position
\* of its closing brace, 0 when it is not there.
LiteralRangeAt(s, p) ==
    LET n1 == DigitRun(s, p + 1)
        n2 == DigitRun(s, p + n1 + 3)
        close == p + n1 + 3 + n2
    IN IF /\ close <= Len(s)
          /\ s[p] = "{"
          /\ n1 >= 1
          /\ s[p + n1 + 1] = "." /\ s[p + n1 + 2] = "."
          /\ n2 >= 1
          /\ s[close] = "}"
       THEN close
       ELSE 0

\* The positions of the ranges of a template.
LiteralRanges(s) == {p \in 1..Len(s) : LiteralRangeAt(s, p) # 0}

\* The start and end literals of the range at position p.
StartLiteral(s, p) == SubSeq(s, p + 1, p + DigitRun(s, p + 1))
EndLiteral(s, p) == SubSeq(s, p + DigitRun(s, p + 1) + 3, LiteralRangeAt(s, p) - 1)

\* Every range of the template has start < end.
RangesNonEmpty(s) ==
    \A p \in LiteralRanges(s) : parse(StartLiteral(s, p)) < parse(EndLiteral(s, p))

\* The integer v as it is written for a range whose start literal is lit:
\* zero-padded to the digits of lit when lit begins with 0, plain otherwise.
Written(v, lit) ==
    IF Head(lit) = "0" THEN pad_left(to_string(v), Len(lit)) ELSE to_string(v)

\* What the template s expands to from position p on: every range replaced by
\* each of its values, the leftmost range varying slowest.
RECURSIVE Expected(_, _)
Expected(s, p) ==
    IF p > Len(s) THEN <<<<>>>>
    ELSE IF LiteralRangeAt(s, p) = 0
    THEN LET rest == Expected(s, p + 1)
         IN [k \in 1..Len(rest) |-> <<s[p]>> \o rest[k]]
    ELSE LET rest == Expected(s, LiteralRangeAt(s, p) + 1)
             a == parse(StartLiteral(s, p))
             b == parse(EndLiteral(s, p))
         IN Concat([v \in 1..(b - a) |->
                      [k \in 1..Len(rest) |->
                          Written(a + v - 1, StartLiteral(s, p)) \o rest[k]]])

\* C16: a template whose ranges all have start < end expands to one URI per
\* tuple of values (end excluded), each range occurrence replaced by its own
\* value, ordered with the leftmost range varying slowest.
C16_CartesianProduct ==
    (ex.pc = "done" /\ ex.out.res = "Ok" /\ RangesNonEmpty(ex.uri))
    => ex.out.uris = Expected(ex.uri, 1)

C18_NoRangeIsSingleton ==
    (ex.pc = "done" /\ LiteralRanges(ex.uri) = {})
    => ex.out = [res |-> "Ok", uris |-> <<ex.uri>>]

\* A range of the template has start >= end.
HasEmptyRange(uri) == ~RangesNonEmpty(uri)

\* C19: a template with a range whose start >= end stops the run before any
\* I/O: the output file is not written, no sink operation is called, no
\* report is produced.
C19_EmptyRangeFailsBeforeIO ==
    HasEmptyRange(dataset_uri) =>
        /\ output_file = "absent"
        /\ sink_log = <<>>
        /\ qw_requests = {}
        /\ futures = {}
        /\ ledger = <<>>

\* C20: every ingest request QuickwitSink::send issued for a batch carries
\* the query commit=force exactly when the batch is flagged last, and its body
\* is the bytes of the batch; every send call issued one.
C20_CommitForceIffLast ==
    engine = "quickwit" =>
        /\ \A r \in qw_requests :
              /\ r.id \in 1..next_id
              /\ r.query = (IF ReceivedBatches[r.id].last THEN "commit=force" ELSE "")
              /\ r.body = ReceivedBatches[r.id].bytes
        /\ \A i \in 1..Len(ledger) : \E r \in qw_requests : r.id = ledger[i].id
        /\ \A f \in futures : f.calls > 0 => \E r \in qw_requests : r.id = f.id

C20_Witness ==
    /\ engine = "quickwit"
    /\ \E r1, r2 \in qw_requests : r1.query = "commit=force" /\ r2.query = ""

----------------------------------------------------------------------------
(* Quickwit's commit request (C21) *)

\* The ingest requests that carried commit=force.
ForcedRequests == {r \in qw_requests : r.query = "commit=force"}

\* C21: a run against Quickwit that received at least one batch and ended
\* with its report issued exactly one ingest request carrying commit=force.
C21_ExactlyOneCommitForce ==
    (engine = "quickwit" /\ dpc = "done" /\ next_id >= 1)
        => Cardinality(ForcedRequests) = 1

----------------------------------------------------------------------------
(* QuickwitSink::send and the 429 answer (C22) *)

\* The requests of the future that were not answered 429, in order.
Answered == SelectSeq(sd.requests, LAMBDA r : r.resp.status # 429)

\* The requests of the future that were answered 429.
Throttled == SelectSeq(sd.requests, LAMBDA r : r.resp.status = 429)

\* C22: QuickwitSink::send returns once per answer other than 429 and never
\* on a 429: after a 429 the call is still running and its next request has
\* the same URL and body; an answer 200 makes it return Ok, a transport error
\* or a 500 makes it return an error; this is so with and without
\* retry-indexing-errors, and Ok is returned at most once, as the last return.
C22_Retries429InsideSend ==
    sd.engine = "quickwit" =>
        /\ \A i \in 1..Len(sd.requests) :
              /\ sd.requests[i].query = QuickwitRequest(sd.batch).query
              /\ sd.requests[i].body = sd.batch.bytes
        /\ Len(sd.returns) = Len(Answered)
        /\ \A i \in 1..Len(Answered) :
              /\ Answered[i].resp.status = 200 => sd.returns[i] = "Ok"
              /\ Answered[i].resp.status \in {0, 500} => sd.returns[i] = "Err"
        /\ sd.in_send <=>
              (sd.requests # <<>> /\ sd.requests[Len(sd.requests)].resp.status = 429)
        /\ sd.calls = Len(sd.returns) + (IF sd.in_send THEN 1 ELSE 0)
        /\ sd.throttled = Len(Throttled)
        /\ \A i \in 1..Len(sd.returns) :
              sd.returns[i] = "Ok" => (i = Len(sd.returns) /\ sd.pc = "resolved")
        /\ (~sd.retry /\ sd.pc = "resolved") => sd.calls = 1

\* Without retry-indexing-errors, a send answered 429 twice and then 200
\* resolved Ok after three requests.
C22_Witness ==
    /\ sd.engine = "quickwit"
    /\ ~sd.retry
    /\ sd.pc = "resolved"
    /\ sd.result.tag = "Ok"
    /\ Len(Throttled) >= 2
    /\ Len(sd.requests) = Len(Throttled) + 1

----------------------------------------------------------------------------
(* QuickwitSink::send and the response status (C23) *)

\* C23: QuickwitSink::send returns Ok for every answer with a 2xx status and
\* returns an error for every answer with another status except 429.
C23_Quickwit2xxIsSuccess ==
    sd.engine = "quickwit" =>
        \A i \in 1..Len(Answered) :
            LET status == Answered[i].resp.status
            IN /\ i <= Len(sd.returns)
               /\ status \in 200..299 => sd.returns[i] = "Ok"
               /\ (status # 0 /\ status \notin 200..299) => sd.returns[i] = "Err"

\* C23 (amended): QuickwitSink::send returns Ok for an answer with status 200
\* only; for every other status except 429, the other 2xx statuses included,
\* and for a transport error it returns an error, and the call made no
\* further request.
C23_QuickwitOnly200IsSuccess ==
    sd.engine = "quickwit" =>
        /\ Len(sd.returns) = Len(Answered)
        /\ \A i \in 1..Len(Answered) :
              sd.returns[i] = (IF Answered[i].resp.status = 200 THEN "Ok" ELSE "Err")
        /\ \A i \in 1..Len(sd.requests) :
              (sd.requests[i].resp.status # 429 /\ i < Len(sd.requests))
                  => /\ sd.retry
                     /\ sd.requests[i].resp.status # 200

\* A request answered 204 made send return an error at once, and the future
\* resolved Err.
C23_Witness ==
    /\ sd.engine = "quickwit"
    /\ sd.pc = "resolved"
    /\ sd.requests # <<>>
    /\ sd.requests[Len(sd.requests)].resp.status = 204
    /\ sd.returns[Len(sd.returns)] = "Err"
    /\ sd.result.tag = "Err"

----------------------------------------------------------------------------
(* ElasticsearchSink::send and the errors field (C24) *)

----------------------------------------------------------------------------
(* LokiSink::send and the timestamp of a line (C27) *)

\* The kinds of line whose timestamp cannot be converted.
TimestampFailures ==
    {"no_timestamp", "timestamp_not_string", "bad_timestamp", "timestamp_out_of_range"}

\* C27: for a batch with a line whose timestamp is missing, not a string,
\* not RFC 3339 or out of the nanosecond range, every call of LokiSink::send
\* returns an error, none panics, and no push request is sent.
C27_LokiTimestampFailureIsError ==
    (/\ sd.engine = "loki"
     /\ \E i \in 1..Len(LinesOf(sd.batch.bytes)) :
           DocKind(LinesOf(sd.batch.bytes)[i]) \in TimestampFailures)
        => /\ sd.pc # "panicked"
           /\ sd.requests = <<>>
           /\ \A i \in 1..Len(sd.returns) : sd.returns[i] = "Err"

----------------------------------------------------------------------------
(* flatten_json (C25) *)

\* The path of kid i of a container whose path is path: a key follows a '.'
\* unless the path so far is empty, the element of index n >= 1 appends [n],
\* the element of index 0 appends nothing.
ChildPath(value, path, i) ==
    IF value.t = "obj"
    THEN (IF path = <<>> THEN <<>> ELSE path \o <<".">>) \o value.kids[i].k
    ELSE IF i = 1 THEN path
    ELSE path \o <<"[">> \o to_string(i - 1) \o <<"]">>

\* The scalar leaves of value in document order, each with its path and with
\* the scalar as a string.
RECURSIVE Leaves(_, _)
Leaves(value, path) ==
    IF value.t \notin {"obj", "arr"} THEN <<[key |-> path, val |-> value.s]>>
    ELSE Concat([i \in 1..Len(value.kids) |->
                    Leaves(value.kids[i].v, ChildPath(value, path, i))])

\* C25: after flatten_json every scalar leaf of the document has an entry
\* whose key is the path of the leaf and whose value is the scalar as a
\* string, and the prefix is what it was at the call.
C25_EveryLeafHasItsEntry ==
    lk.pc = "flattened" =>
        LET leaves == Leaves(lk.doc, lk.prefix)
        IN /\ \A i \in 1..Len(leaves) :
                 /\ leaves[i].key \in DOMAIN lk.out.flattened
                 /\ lk.out.flattened[leaves[i].key] = leaves[i].val
           /\ lk.out.prefix = lk.prefix

\* C25 (amended): the keys of the map are the paths of the scalar leaves; the
\* value of a key is the string of the last leaf, in document order, that has
\* this path, so a leaf whose path no later leaf shares has its own entry;
\* the prefix is what it was at the call.
C25_LastLeafOfAPathWins ==
    lk.pc = "flattened" =>
        LET leaves == Leaves(lk.doc, lk.prefix)
        IN /\ DOMAIN lk.out.flattened = {leaves[i].key : i \in 1..Len(leaves)}
           /\ \A i \in 1..Len(leaves) :
                 (\A j \in (i + 1)..Len(leaves) : leaves[j].key # leaves[i].key)
                     => lk.out.flattened[leaves[i].key] = leaves[i].val
           /\ lk.out.prefix = lk.prefix

\* The document of test_flatten_json is flattened to a, b.c, b.d and b.d[1].
C25_Witness ==
    /\ lk.pc = "flattened"
    /\ lk.doc = TestDoc
    /\ lk.prefix = <<>>
    /\ lk.out.prefix = <<>>
    /\ lk.out.flattened =
          (<<"a">> :> <<"1">>) @@ (<<"b", ".", "c">> :> <<"2">>)
          @@ (<<"b", ".", "d">> :> <<"3">>)
          @@ (<<"b", ".", "d", "[", "1", "]">> :> <<"4">>)

----------------------------------------------------------------------------
(* parse_timestamp_to_nanoseconds (C26) *)

\* Leap years among the years 1..y.
LeapYearsUpTo(y) == y \div 4 - y \div 100 + y \div 400

\* Days from 1970-01-01 to the first day of year y: 365 a year and one more
\* for every leap year in between.
DaysToYear(y) == (y - 1970) * 365 + LeapYearsUpTo(y - 1) - LeapYearsUpTo(1969)

\* Days from the first day of year y to the first day of its month m.
RECURSIVE DaysToMonth(_, _)
DaysToMonth(y, m) ==
    IF m = 1 THEN 0 ELSE DaysToMonth(y, m - 1) + DaysInMonth(y, m - 1)

\* The instant a timestamp names: its seconds since the Unix epoch, the UTC
\* offset applied, as whole days and second of the day, and its nanoseconds.
NamedInstant(ts) ==
    LET days == DaysToYear(ts.year) + DaysToMonth(ts.year, ts.month) + ts.day - 1
        local == ts.hour * 3600 + ts.minute * 60 + ts.second
        utc == local - ts.offset * 60
    IN [days |-> IF utc < 0 THEN days - 1 ELSE IF utc >= 86400 THEN days + 1 ELSE days,
        sod |-> IF utc < 0 THEN utc + 86400 ELSE IF utc >= 86400 THEN utc - 86400 ELSE utc,
        nano |-> ts.nano]

\* 2020-01-01T12:00:00Z and its nanoseconds in test_parse_timestamp_to_nanoseconds.
TestTimestamp == Ts(2020, 1, 1, 12, 0, 0, 0, 0)
TestNanos ==
    <<"1", "5", "7", "7", "8", "8", "0", "0", "0", "0",
      "0", "0", "0", "0", "0", "0", "0", "0", "0">>

\* C26: for every valid RFC 3339 timestamp parse_timestamp_to_nanoseconds
\* returns Ok with the decimal string of the nanoseconds since the Unix epoch
\* of the instant it names; 2020-01-01T12:00:00Z gives 1577880000000000000.
C26_NanosecondsSinceEpoch ==
    (lk.pc = "converted" /\ parse_from_rfc3339(lk.ts)) =>
        /\ lk.nanos.res = "Ok"
        /\ lk.nanos.s = I64ToString(NamedInstant(lk.ts))
        /\ lk.ts = TestTimestamp => lk.nanos.s = TestNanos

----------------------------------------------------------------------------
(* The output file (C28) *)

\* The report was written.
ReportWritten == \E i \in 1..Len(sink_log) : sink_log[i].op = "report"

\* C28: the output file does not exist while the engine is not accepted and
\* before the placeholder step, which comes before every sink call; from
\* that step on it holds {} in every state but the final one, where it holds
\* the report; a run that stopped on a failure holds {} and wrote no report.
C28_PlaceholderUntilReport ==
    /\ engine \in UnsupportedEngines =>
          (dpc = "aborted" /\ output_file = "absent" /\ sink_log = <<>>)
    /\ dpc = "placeholder" => (output_file = "absent" /\ sink_log = <<>>)
    /\ (engine \in Engines /\ dpc \notin {"placeholder", "done"}) =>
          (output_file = "{}" /\ ~ReportWritten)
    /\ dpc = "done" =>
          (output_file = Report(num_ingested_bytes) /\ ReportWritten)

\* A run that received batches and stopped on a failed commit holds {}.
C28_Witness ==
    /\ dpc = "aborted"
    /\ abort_cause = "commit"
    /\ ledger # <<>>
    /\ output_file = "{}"

----------------------------------------------------------------------------
(* Back-pressure (C29, C30) *)

\* The driver takes the item at the head of the channel.
DriverTakes == chan # <<>> /\ chan' = Tail(chan)

\* The producer completes a send on the channel.
ProducerCompletesSend == Len(delivered') > Len(delivered)

\* C29: the channel never holds more than one item; a send of the producer
\* completes only when every earlier item was taken by the driver; and the
\* driver takes an item only while fewer than 2 sends are in flight.
C29_ChannelBackPressure ==
    /\ [](Len(chan) <= 1)
    /\ [][/\ ProducerCompletesSend => (chan = <<>> /\ Len(delivered') = Len(delivered) + 1)
          /\ DriverTakes => (dpc = "recv" /\ Cardinality(futures) < 2)]_vars

\* The producer waits with its next batch while one batch is queued and two
\* sends are in flight.
C29_Witness ==
    /\ ppc = "send"
    /\ Len(chan) = 1
    /\ Cardinality(futures) = 2
    /\ dpc = "await"

\* The buffers of batch size that hold bytes: the producer's output buffer
\* (accumulating, or taken and waiting to enter the channel), the reader's
\* line buffer, the batches queued in the channel, the batches of the
\* unresolved sends.
BuffersAlive ==
    (IF ppc \in {"next", "send"} /\ bytes # <<>> THEN 1 ELSE 0)
    + (IF ppc \in {"next", "send"} /\ reader.buffer # <<>> THEN 1 ELSE 0)
    + Len(SelectSeq(chan, LAMBDA it : it.kind = "batch"))
    + Cardinality(futures)

----------------------------------------------------------------------------
(* C34 *)

\* The 1-based position in the input of the line that starts at offset `at`:
\* one more than the number of lines that end before it.
InputLineNumber(data, at) == Cardinality({i \in 1..at : data[i] = NL}) + 1

\* C34: whenever next_batch discards an oversized line, the line number of
\* its warning (num_lines + 1) is the 1-based position of that line in the
\* input, whatever batches were returned and whatever lines were discarded
\* before.
C34_WarningNamesInputLine ==
    \A i \in 1..Len(rd.warnings) :
        rd.warnings[i].line = InputLineNumber(rd.data, rd.warnings[i].at)

----------------------------------------------------------------------------
(* C35 *)

\* The bytes of the batches of URI u delivered before the i-th batch.
DeliveredOfBefore(u, i) ==
    Concat([j \in 1..(i - 1) |->
               IF DeliveredBatches[j].uri = u THEN DeliveredBatches[j].bytes ELSE <<>>])

\* C35: every batch the producer delivers on the channel is non-empty, is at
\* most batch_size bytes long, and holds bytes of one URI only: it continues,
\* right where the earlier batches of its URI ended, the lines of that URI.
C35_BatchesNonEmptyBoundedSingleUri ==
    \A i \in 1..Len(DeliveredBatches) :
        LET b == DeliveredBatches[i]
        IN /\ b.bytes # <<>>
           /\ Len(b.bytes) <= batch_size(engine)
           /\ b.uri \in 1..Len(files)
           /\ IsPrefix(DeliveredOfBefore(b.uri, i) \o b.bytes,
                       Concat(KeptLines(files[b.uri], batch_size(engine))))

\* Both URIs of a run delivered batches, one of them as long as the budget,
\* and the first URI ended with bytes left in its accumulator.
C35_Witness ==
    /\ \E i, j \in 1..Len(DeliveredBatches) :
          /\ DeliveredBatches[i].uri = 1
          /\ Len(DeliveredBatches[i].bytes) = batch_size(engine)
          /\ DeliveredBatches[j].uri = 2
    /\ Len(DeliveredOf(1)) < Len(Concat(KeptLines(files[1], batch_size(engine))))

----------------------------------------------------------------------------
(* C32 *)

\* Opening or reading URI u fails: it cannot be opened, or its stream fails at
\* an offset the reader gets to (it reads every URI up to the end).
Fails(u) ==
    \/ faults[u].kind = "open"
    \/ faults[u].kind = "read" /\ faults[u].at <= Len(files[u])

\* The positions of the error items of URI u among the delivered items.
ErrorItemsOf(u) ==
    {k \in 1..Len(delivered) : delivered[k].kind = "error" /\ delivered[k].uri = u}

\* The producer is through with URI u: the for loop is at a later URI or over.
LeftUri(u) == ppc \in {"open", "next", "send", "send_err", "done", "disconnected"} /\ uri_idx > u

\* The producer forwards the failure of the URI it streams.
ForwardsError ==
    /\ ppc = "send_err"
    /\ ppc' # ppc
    /\ rx_alive

\* Forwarding a failure puts the error item and moves to the next URI.
ForwardsErrorAndGoesOn ==
    ForwardsError =>
        /\ delivered' = Append(delivered,
              [kind |-> "error", uri |-> uri_idx, bytes |-> <<>>, last |-> FALSE])
        /\ uri_idx' = uri_idx + 1
        /\ ppc' = (IF uri_idx < Len(files) THEN "open" ELSE "done")

\* The for loop moves from a URI to the one right after it and opens it.
VisitsUrisInTurn ==
    uri_idx' # uri_idx =>
        /\ uri_idx' = uri_idx + 1
        /\ ppc' = (IF uri_idx' <= Len(files) THEN "open" ELSE "done")

\* C32: a URI that fails gets exactly one error item on the channel, no batch
\* of that URI follows it, and no URI gets an error item without failing; when
\* the producer forwards a failure to a channel that has its receiver, the
\* error item is what it puts and it goes on to open the next URI (or ends
\* after the final one); the for loop visits the URIs one by one, whatever
\* failed before.
C32_ErrorForwardedThenNextUri ==
    /\ [](\A u \in 1..Len(files) :
            /\ Cardinality(ErrorItemsOf(u)) <= 1
            /\ ErrorItemsOf(u) # {} => Fails(u)
            /\ \A k \in ErrorItemsOf(u) :
                  \A m \in (k + 1)..Len(delivered) : delivered[m].uri # u
            /\ LeftUri(u) /\ Fails(u) => Cardinality(ErrorItemsOf(u)) = 1)
    /\ [][ForwardsErrorAndGoesOn /\ VisitsUrisInTurn]_vars

\* Reading the first URI failed after its first line; its one error item is
\* on the channel, which still has its receiver, and the producer is reading
\* the second URI.
C32_Witness ==
    /\ Len(files) = 2
    /\ faults[1].kind = "read" /\ faults[1].at > 0
    /\ Cardinality(ErrorItemsOf(1)) = 1
    /\ rx_alive
    /\ uri_idx = 2
    /\ ppc = "next"
    /\ reader.pos > 0

----------------------------------------------------------------------------
(* C31 *)

\* The first send attempt of the id-th batch handed to send_with_retry has
\* started: its future was polled, or has resolved already.
Started(id) ==
    \/ \E f \in futures : f.id = id /\ f.calls > 0
    \/ \E k \in 1..Len(ledger) : ledger[k].id = id

\* The id-th batch handed to send_with_retry is the one flagged last.
HandedLast(id) == id \in 1..next_id /\ DeliveredBatches[id].last

\* The step starts the first send attempt of the id-th batch.
StartsSend(id) == ~Started(id) /\ Started(id)'

\* When a first send attempt starts, that of the last batch has not started
\* before; when it is the last batch's, at most one other send is unresolved.
StartsInOrder ==
    \A i \in 1..next_id :
        StartsSend(i) =>
            /\ \A j \in 1..next_id : (j # i /\ HandedLast(j)) => ~Started(j)
            /\ HandedLast(i) => Cardinality({g \in futures : g.id # i}) <= 1

\* C31: the batch flagged last is the final batch the driver hands to
\* send_with_retry; no other batch's first send attempt starts after the
\* first send attempt of the last batch; and when the last batch's send
\* starts, at most one other send is still unresolved.
C31_LastBatchStartsLast ==
    /\ [](\A id \in 1..next_id : HandedLast(id) => id = next_id)
    /\ [][StartsInOrder]_vars

\* The send of the last batch has started while the send of the batch before
\* it, started earlier, is still unresolved.
C31_Witness ==
    \E f, g \in futures :
        /\ f.batch.last
        /\ f.calls > 0
        /\ g.id < f.id
        /\ g.calls > 0

----------------------------------------------------------------------------
(* C33 *)

\* A send of the batch of future f has failed and the batch is to be sent
\* again.
Failing(f) == f.fails > 0

\* After the step the batch of f is still in flight, to be sent again, or a
\* send of it has succeeded, or the step is a send that panicked and that
\* may be the next send of this very batch.
SentAgain(f) ==
    \/ \E g \in futures' : g.id = f.id /\ g.batch = f.batch
    \/ \E k \in 1..Len(ledger') : ledger'[k].id = f.id /\ ledger'[k].result.tag = "Ok"
    \/ /\ abort_cause' = "send_panic"
       /\ \E resp \in Responses : SinkSend(engine, f.batch, resp) = "Panic"

\* main has called commit(), index_info() or written the report.
CommitIndexInfoOrReport ==
    \E k \in 1..Len(sink_log) : sink_log[k].op \in {"commit", "index_info", "report"}

\* C33: with retry enabled no future resolves Err and
\* num_ingestion_error_bytes stays 0; a batch whose send failed is sent again,
\* however often it failed: it stays in flight until a send of it succeeds;
\* and while a batch's send keeps failing the driver has not called commit(),
\* index_info() or written the report.
C33_RetryNeverGivesUp ==
    /\ [](retry =>
            /\ num_ingestion_error_bytes = 0
            /\ \A k \in 1..Len(ledger) : ledger[k].result.tag = "Ok"
            /\ (\E f \in futures : Failing(f)) => ~CommitIndexInfoOrReport)
    /\ [][retry => \A f \in futures : Failing(f) => SentAgain(f)]_vars

----------------------------------------------------------------------------
(* C36 *)

\* The run ended with the report: the producer finished and the channel is
\* closed and empty, every delivered batch was received and its send has
\* resolved, commit() and index_info() were called and the report is written.
RunEndedWithReport ==
    /\ ppc = "done"
    /\ chan = <<>>
    /\ next_id = Len(DeliveredBatches)
    /\ futures = {}
    /\ {ledger[i].id : i \in 1..Len(ledger)} = 1..next_id
    /\ \E i, j \in 1..Len(sink_log) :
          sink_log[i].op = "commit" /\ sink_log[j].op = "index_info"
    /\ ReportWritten
    /\ dpc = "done"

\* main ended before the report, on the error of build_info(), commit() or
\* index_info() or on the panic of a send, and the producer was not spawned,
\* has finished, or has stopped at a send that found the receiver gone.
RunEndedEarly ==
    /\ dpc = "aborted"
    /\ abort_cause \in {"build_info", "send_panic", "commit", "index_info"}
    /\ ~ReportWritten
    /\ ppc \in {"idle", "done", "disconnected"}

\* C36 as stated: with a finite input read without error, retry off and every
\* request answered in the end with something else than 429, the producer
\* finishes and closes the channel, every received batch's send resolves and
\* the driver calls commit() and index_info() and writes the report.
C36_RunEndsWithReport == <>RunEndedWithReport

\* C36, amended: such a run ends, with the report or early; neither the
\* producer blocked on the full channel nor the driver waiting for a batch
\* or for a send waits for ever.
C36_RunEnds == <>(RunEndedWithReport \/ RunEndedEarly)

\* A run of two URIs and three sends that ended with the report.
C36_Witness ==
    /\ RunEndedWithReport
    /\ Len(files) = 2
    /\ next_id >= 3

====
